---- MODULE Spec2Model ----
(***************************************************************************)
(* The multi-bot orchestration engine of forgebot-rituals:                 *)
(*   KypriaOrchestrator (ritual queue, active set, alignment, convergence),*)
(*   EchoBot (bounded echo chambers), ScrollBot (scroll alignment store),  *)
(*   and the process-wide event channel that connects them.                *)
(*                                                                         *)
(* JavaScript numbers are modelled as exact rationals [n, d] in lowest     *)
(* terms.  Wall-clock stamps (started, queued, completed, lastHeartbeat)   *)
(* are not part of the state; ritual timeouts are timers that may fire at  *)
(* any later step.                                                         *)
(***************************************************************************)
EXTENDS Integers, Sequences, FiniteSets, TLC

(***************************************************************************)
(* Bounds of the model.                                                    *)
(***************************************************************************)
\* rituals ever created (generateRitualId calls) in one behaviour
MaxRituals == 7
\* echoes ever created (generateEchoId calls) in one behaviour
MaxEchoIds == 11
\* queueRitual calls by callers outside the orchestrator
MaxQueued == 2
\* domain events arriving from outside the orchestrator
MaxEvents == 1
\* rituals the convergence controller creates
MaxTransitions == 2
\* forceRealignment calls (each registers the EchoBot listeners once more)
MaxRealignments == 1
\* depth the call stack allows before RangeError when a handler re-enters itself
MaxStackDepth == 2
\* completeRitual calls for one ritual, its timer included
MaxCompletionCalls == 2
\* echoes created where callers also amplify them
MaxAmplifyEchoes == 2
\* 'Critical Echo Alert' scroll writes in flight at a time
MaxCriticalWrites == 1
\* echoes created where the decay is followed
MaxDecayEchoes == 2
\* processShrineEvent calls in one behaviour
MaxShrineEvents == 16
\* processShriningPing calls that award a badge in one behaviour
MaxPings == 2
\* the largest misfireCount of a shrine event
MaxMisfireCount == 12
\* instants of the millisecond clock at which alignment samples are taken
MaxClock == 102
\* the largest maxRetries a caller passes to retryWithBackoff
MaxRetriesArg == 3
\* the most items and the largest concurrency passed to executeConcurrently
MaxItems == 3
MaxConcurrency == 2

(***************************************************************************)
(* Program constants.                                                      *)
(***************************************************************************)
\* processRitualQueue: this.activeRituals.size < 5
ConcurrencyCeiling == 5
\* calculateKypriaAlignment: this.alignmentMatrix.size > 100
HistoryCap == 100
\* EchoBot constructor: this.maxEchoes = 10
maxEchoes == 10

(***************************************************************************)
(* Numbers.                                                                *)
(***************************************************************************)
RECURSIVE Gcd(_, _)
Gcd(a, b) == IF b = 0 THEN a ELSE Gcd(b, a % b)

Abs(x) == IF x < 0 THEN -x ELSE x

\* the rational n/d (d > 0) in lowest terms
Rat(n, d) == LET g == Gcd(Abs(n), d) IN [n |-> n \div g, d |-> d \div g]

RAdd(a, b) == Rat(a.n * b.d + b.n * a.d, a.d * b.d)
RMul(a, b) == Rat(a.n * b.n, a.d * b.d)
RDivInt(a, k) == Rat(a.n, a.d * k)
RLt(a, b) == a.n * b.d < b.n * a.d
RLeq(a, b) == a.n * b.d <= b.n * a.d
RMin(a, b) == IF RLeq(a, b) THEN a ELSE b
Zero == Rat(0, 1)
One == Rat(1, 1)

\* this.convergenceThreshold = 0.85
convergenceThreshold == Rat(85, 100)
\* ScrollBot: this.alignmentThreshold = 0.75
alignmentThreshold == Rat(75, 100)

(***************************************************************************)
(* ScrollBot: the alignment score of a text, from the keywords it holds.   *)
(* A text is the record of which keywords it contains.                     *)
(***************************************************************************)
Keywords == {"relic", "trigger", "badge", "canon", "ritual",
             "shrine", "echo", "fragment", "hash"}
Canonical == {"relic", "trigger", "badge", "canon", "ritual"}
Mystical == {"shrine", "echo", "fragment"}

ScrollAlignmentUncapped(content) ==
    Rat(50 + 10 * Cardinality(content \cap Canonical)
           + 5 * Cardinality(content \cap Mystical), 100)

\* ScrollBot.calculateKypriaAlignment(content)
ScrollAlignment(content) ==
    RMin(Rat(50 + 10 * Cardinality(content \cap Canonical)
                + 5 * Cardinality(content \cap Mystical), 100), One)

\* ScrollBot.enhanceAlignment(content, metadata); no caller passes metadata.title
enhanceAlignment(content) ==
    content \cup (IF "hash" \in content THEN {} ELSE {"hash"})
            \cup (IF "ritual" \in content THEN {} ELSE {"canon", "ritual"})

\* the alignment createScroll stores for a text (scrollData.alignment)
StoredAlignment(content) ==
    IF RLt(ScrollAlignment(content), alignmentThreshold)
    THEN ScrollAlignment(enhanceAlignment(content))
    ELSE ScrollAlignment(content)


\* ScrollBot.formatScrollContent + loadExistingScrolls: the alignment a reload
\* computes for a file createScroll wrote (title, body, "Canonized:" footer)
ReloadAlignment(title, content) ==
    LET body == IF RLt(ScrollAlignment(content), alignmentThreshold)
                THEN enhanceAlignment(content) ELSE content
    IN ScrollAlignment(title \cup body \cup {"hash", "canon"})

\* the scroll files of the model: the title and text each call site writes
ScrollFiles == {"external", "convergence", "relic", "badge", "critical"}

\* the texts a forgebot:scroll:create request carries in the model
ExternalContents == {Keywords, {}}

\* performConvergenceRitual: 'All bots have achieved perfect alignment ...'
ConvergenceContent == {}
\* handleRelicTrigger, relicType 'Deadwood Echo': 'Relic Deadwood Echo was triggered ...'
RelicContent == {"trigger", "echo"}
\* handleBadgeAward, badge 'Watcher of the Void', metadata { relic: 'Deadwood Echo' }
BadgeContent == {"badge", "echo"}
\* handleEchoAmplification: 'CRITICAL: Echo amplified beyond normal parameters ...'
CriticalContent == {"echo"}

\* ScrollBot.calculateAverageAlignment over this.scrolls
RECURSIVE SumScrolls(_, _)
SumScrolls(sc, files) ==
    IF files = {} THEN Zero
    ELSE LET f == CHOOSE x \in files : TRUE
         IN RAdd(sc[f], SumScrolls(sc, files \ {f}))

calculateAverageAlignment(sc) ==
    IF DOMAIN sc = {} THEN Zero
    ELSE RDivInt(SumScrolls(sc, DOMAIN sc), Cardinality(DOMAIN sc))

\* this.scrolls.set(fileName, ...)
SetScroll(sc, f, a) == [x \in DOMAIN sc \cup {f} |-> IF x = f THEN a ELSE sc[x]]

(***************************************************************************)
(* KypriaOrchestrator: the registry of bots.                               *)
(***************************************************************************)
\* insertion order of this.bots (initializeBotComponents)
BotOrder == <<"forgebot", "scrollbot", "echobot", "seasonalvoices">>
BotNames == {BotOrder[i] : i \in 1..Len(BotOrder)}

InitialAlignment(b) ==
    CASE b = "forgebot" -> Rat(90, 100)
      [] b = "scrollbot" -> Rat(80, 100)
      [] b = "echobot" -> Rat(85, 100)
      [] b = "seasonalvoices" -> Rat(75, 100)

\* getActiveBots().map(name)
getActiveBots(bs) == {b \in BotNames : bs[b].status = "active"}

HasAnyManifest(b) == b \in {"scrollbot", "echobot", "seasonalvoices"}

\* the bots whose generateManifest() carries manifest.scrollbot
HasScrollManifest(b) == b = "scrollbot"

RECURSIVE TotalAlignment(_, _)
TotalAlignment(bs, i) ==
    IF i > Len(BotOrder) THEN Zero
    ELSE RAdd(IF bs[BotOrder[i]].status = "active" THEN bs[BotOrder[i]].alignment ELSE Zero,
              TotalAlignment(bs, i + 1))

\* calculateKypriaAlignment: the new this.lastAlignment
NewLastAlignment(bs) ==
    LET n == Cardinality(getActiveBots(bs))
    IN IF n > 0 THEN RDivInt(TotalAlignment(bs, 1), n) ELSE Zero

\* calculateKypriaAlignment: bot.alignment = manifest.scrollbot.averageAlignment
\* when that average is truthy (not 0)
ManifestUpdate(bs, sc) ==
    [b \in BotNames |->
        IF /\ bs[b].status = "active"
           /\ HasScrollManifest(b)
           /\ calculateAverageAlignment(sc) # Zero
        THEN [bs[b] EXCEPT !.alignment = calculateAverageAlignment(sc)]
        ELSE bs[b]]

(***************************************************************************)
(* KypriaOrchestrator: rituals.                                            *)
(***************************************************************************)
\* the kinds executeRitual's switch names
RecognizedTypes == {"alignment_convergence", "bot_synchronization", "codex_update"}
\* the perform* methods among them that the class defines: none
\* (performAlignmentConvergence, performBotSynchronization, performCodexUpdate
\*  are called but never defined, so the call raises TypeError)
DefinedHandlers == {}
HandlerThrows(type) == type \in RecognizedTypes /\ type \notin DefinedHandlers

\* the kinds a caller of queueRitual passes in the model
QueueTypes == {"alignment_convergence", "custom"}
Priorities == {"high", "normal"}

\* queueRitual: unshift for priority 'high', push otherwise
Enqueue(queue, id, priority) ==
    IF priority = "high" THEN <<id>> \o queue ELSE Append(queue, id)

\* processRitualQueue: the loop condition
CanAdmit(queue, active) == Len(queue) > 0 /\ Cardinality(active) < ConcurrencyCeiling

SetStatus(rs, id, st) == [rs EXCEPT ![id].status = st]

\* executeRitual without the setTimeout that completes the ritual
executeRitualNoTimer(s, id) ==
    LET rs == SetStatus(s.rituals, id, "executing")
    IN IF HandlerThrows(rs[id].type)
       THEN [s EXCEPT !.rituals = rs, !.fault = TRUE]
       ELSE [s EXCEPT !.rituals = rs,
                      !.active = @ \cup {id},
                      !.admitted = Append(@, id)]

\* executeRitual(ritual) on the drain state s; s.fault is the error it raised
executeRitual(s, id) ==
    LET rs == SetStatus(s.rituals, id, "executing")
    IN IF HandlerThrows(rs[id].type)
       THEN [s EXCEPT !.rituals = rs, !.fault = TRUE]
       ELSE [s EXCEPT !.rituals = rs,
                      !.active = @ \cup {id},
                      !.timers = @ \cup {id},
                      !.admitted = Append(@, id)]

\* processRitualQueue: shift and execute until the queue is empty, the ceiling
\* is reached, or executeRitual raises
RECURSIVE processRitualQueue(_)
processRitualQueue(s) ==
    IF s.fault \/ ~CanAdmit(s.queue, s.active) THEN s
    ELSE processRitualQueue(
            executeRitual([s EXCEPT !.queue = Tail(@), !.taken = Append(@, Head(s.queue))],
                          Head(s.queue)))


(***************************************************************************)
(* EchoBot.                                                                *)
(***************************************************************************)
\* setupResonancePatterns / getDefaultPattern: amplitude, decay (ms), harmonics
Pattern(type) ==
    CASE type = "relic:deadwood" -> [amplitude |-> Rat(7, 10), decay |-> 5000, harmonics |-> 3]
      [] type = "relic:jester" -> [amplitude |-> Rat(9, 10), decay |-> 8000, harmonics |-> 3]
      [] type = "badge:emission" -> [amplitude |-> Rat(8, 10), decay |-> 3000, harmonics |-> 3]
      [] type = "shrine:ping" -> [amplitude |-> Rat(1, 1), decay |-> 2000, harmonics |-> 3]
      [] OTHER -> [amplitude |-> Rat(5, 10), decay |-> 3000, harmonics |-> 0]

AtCapacityOffByOne(count) == count > maxEchoes

\* createEcho: the overflow test
AtCapacity(count) == count >= maxEchoes

\* createEcho: the echo object (age stands for Date.now() - created)
NewEcho(id, type) ==
    [id |-> id, type |-> type, age |-> 0,
     amplitude |-> Pattern(type).amplitude, resonating |-> TRUE]

\* SeasonalVoicePacks.formatSeasonalEcho(data): [...harmonics] of a payload
\* without a harmonics field raises TypeError once a voice pack is current
formatSeasonalEchoThrows(payload) == "harmonics" \notin DOMAIN payload

\* the listeners of the EchoBot emitter once the orchestrator has subscribed,
\* in registration order (setupInterBotCommunication); an EchoBot on its own
\* has none
Subscribers(topic) ==
    CASE topic = "echo:created" -> <<"propagateEcho">>
      [] topic = "echo:amplified" -> <<"handleEchoAmplification">>
      [] OTHER -> <<>>

\* whether a listener raises on a payload
ListenerThrows(listener, payload) ==
    listener = "propagateEcho" /\ formatSeasonalEchoThrows(payload)

\* EventEmitter.emit: the listeners are called in order, synchronously; an
\* error a listener raises leaves emit, and the later listeners are not called
RECURSIVE Emit(_, _, _)
Emit(listeners, payload, called) ==
    IF listeners = <<>> THEN [called |-> called, threw |-> FALSE]
    ELSE IF ListenerThrows(Head(listeners), payload)
         THEN [called |-> Append(called, Head(listeners)), threw |-> TRUE]
         ELSE Emit(Tail(listeners), payload, Append(called, Head(listeners)))

\* createEcho(eventType, data) on the echo state e
\*   outcome "dropped": returned null; "threw": the emit raised; "returned"
\* createEcho that counts the echo only once the 'echo:created' emit returned
createEchoCountedAfterEmit(e, type) ==
    IF AtCapacity(e.active)
    THEN [e EXCEPT !.outcome = "dropped", !.delivered = <<>>]
    ELSE LET echo == NewEcho(e.next, type)
             sent == Emit(IF e.orchestrated THEN Subscribers("echo:created") ELSE <<>>,
                          echo, <<>>)
         IN [e EXCEPT !.chambers = Append(@, echo),
                      !.active = IF sent.threw THEN @ ELSE @ + 1,
                      !.next = @ + 1,
                      !.delivered = sent.called,
                      !.outcome = IF sent.threw THEN "threw" ELSE "returned"]

createEcho(e, type) ==
    IF AtCapacity(e.active)
    THEN [e EXCEPT !.outcome = "dropped", !.delivered = <<>>]
    ELSE LET echo == NewEcho(e.next, type)
             sent == Emit(IF e.orchestrated THEN Subscribers("echo:created") ELSE <<>>,
                          echo, <<>>)
         IN [e EXCEPT !.chambers = Append(@, echo),
                      !.active = @ + 1,
                      !.next = @ + 1,
                      !.delivered = sent.called,
                      !.outcome = IF sent.threw THEN "threw" ELSE "returned",
                      !.harmonics = IF ~sent.threw /\ Pattern(type).harmonics > 0
                                    THEN @ \cup {[id |-> echo.id,
                                                   kinds |-> Pattern(type).harmonics]}
                                    ELSE @]

AmplifiedUncapped(amplitude, multiplier) == RMul(amplitude, multiplier)

\* amplifyEcho: Math.min(echo.amplitude * multiplier, 2.0)
Amplified(amplitude, multiplier) == RMin(RMul(amplitude, multiplier), Rat(2, 1))

\* handleEchoAmplification: echo.amplitude > 1.5 asks for a 'Critical Echo Alert' scroll
IsCritical(amplitude) == RLt(Rat(15, 10), amplitude)

\* amplifyEcho(echoId, multiplier) on the echo state
amplifyEcho(e, id, multiplier) ==
    [e EXCEPT !.chambers =
        [i \in 1..Len(e.chambers) |->
            IF e.chambers[i].id = id
            THEN [e.chambers[i] EXCEPT
                    !.amplitude = Amplified(e.chambers[i].amplitude, multiplier)]
            ELSE e.chambers[i]],
        !.critical = @ + Cardinality({i \in 1..Len(e.chambers) :
                          /\ e.orchestrated
                          /\ e.chambers[i].id = id
                          /\ IsCritical(Amplified(e.chambers[i].amplitude, multiplier))})]

\* handleRelicEcho: the echo type of a relic
RelicEchoType(relicType) ==
    CASE relicType = "Headless Jester Hauler" -> "relic:jester"
      [] relicType = "Deadwood Echo" -> "relic:deadwood"
      [] OTHER -> "relic:unknown"

\* the last echo createEcho stored (the value it returns)
LastEchoId(e) == e.chambers[Len(e.chambers)].id

\* handleRelicEcho(data): e.rejected counts the handler promises that rejected
handleRelicEcho(e, relicType, misfireCount) ==
    LET c == createEcho(e, RelicEchoType(relicType))
    IN CASE c.outcome = "threw" ->
              [c EXCEPT !.rejected = @ + 1, !.handler = "threw"]
         [] c.outcome = "dropped" ->
              IF misfireCount >= 10
              THEN [c EXCEPT !.rejected = @ + 1, !.handler = "null-dereference"]
              ELSE [c EXCEPT !.handler = "ok"]
         [] OTHER ->
              IF misfireCount >= 10
              THEN [amplifyEcho(c, LastEchoId(c), Rat(15, 10)) EXCEPT !.handler = "ok"]
              ELSE [c EXCEPT !.handler = "ok"]

\* handleBadgeEcho(data): the echo is not dereferenced; a special badge
\* ('Fragment' or 'Void' in its name) sets a timer for a second echo
handleBadgeEcho(e, special) ==
    LET c == createEcho(e, "badge:emission")
    IN IF c.outcome = "threw"
       THEN [c EXCEPT !.rejected = @ + 1, !.handler = "threw"]
       ELSE [c EXCEPT !.handler = "ok",
                      !.specialTimers = IF special THEN @ + 1 ELSE @]

\* handleShrineEcho(data)
handleShrineEcho(e, success) ==
    LET c == createEcho(e, "shrine:ping")
    IN CASE c.outcome = "threw" ->
              [c EXCEPT !.rejected = @ + 1, !.handler = "threw"]
         [] c.outcome = "dropped" ->
              IF ~success
              THEN [c EXCEPT !.rejected = @ + 1, !.handler = "null-dereference"]
              ELSE [c EXCEPT !.handler = "ok"]
         [] OTHER ->
              IF ~success
              THEN [amplifyEcho(c, LastEchoId(c), Rat(13, 10)) EXCEPT !.handler = "ok"]
              ELSE [c EXCEPT !.handler = "ok"]


(***************************************************************************)
(* The alignment history (KypriaOrchestrator.alignmentMatrix, a Map keyed  *)
(* by Date.now()).                                                         *)
(***************************************************************************)
\* Math.min(...this.alignmentMatrix.keys())
OldestSample(matrix) ==
    CHOOSE t \in DOMAIN matrix : \A u \in DOMAIN matrix : t <= u

\* Map.set: a key the map already has keeps its place and gets the new value
MapSet(matrix, t, alignment) ==
    [u \in DOMAIN matrix \cup {t} |-> IF u = t THEN alignment ELSE matrix[u]]

\* the tail of calculateKypriaAlignment: store the sample under the current
\* timestamp, then keep only the last 100 measurements
storeAlignment(matrix, t, alignment) ==
    LET stored == MapSet(matrix, t, alignment)
    IN IF Cardinality(DOMAIN stored) > HistoryCap
       THEN [u \in DOMAIN stored \ {OldestSample(stored)} |-> stored[u]]
       ELSE stored

(***************************************************************************)
(* ShrinePingHandler (integration-example.js): badges and mascots by       *)
(* misfireCount.                                                           *)
(***************************************************************************)
\* JavaScript null
Null == [null |-> TRUE]

\* the two ritual objects determineRitual returns
HeadlessJesterHauler ==
    [id |-> 67, name |-> "Headless Jester Hauler", badge |-> "Jester's Gambit",
     mascot |-> "Headless", mascotThreshold |-> 7]
DeadwoodEcho ==
    [id |-> 109, name |-> "Deadwood Echo", badge |-> "Deadwood Echo",
     mascot |-> "Echo", mascotThreshold |-> 10]

\* determineRitual as Canon.md words Relic #067: every misfireCount >= 3
determineRitualCanon(misfireCount) ==
    IF misfireCount >= 3 THEN HeadlessJesterHauler ELSE Null

determineRitual(misfireCount) ==
    IF misfireCount >= 3 /\ misfireCount < 5 THEN HeadlessJesterHauler
    ELSE IF misfireCount >= 5 THEN DeadwoodEcho
    ELSE Null

\* shouldDeployMascot with the threshold of Relic #067 for every ritual
shouldDeployMascotHeadless(ritual, misfireCount) ==
    misfireCount >= HeadlessJesterHauler.mascotThreshold

shouldDeployMascot(ritual, misfireCount) ==
    misfireCount >= ritual.mascotThreshold

determineBadgeTier(ritualId) ==
    IF ritualId = 67 THEN "silver"
    ELSE IF ritualId = 109 THEN "gold"
    ELSE "bronze"

\* deployMascot: one message per deployment channel
DeploymentChannels == <<"#shrine-echoes", "#general">>
MascotMessagesOf(ritual, sponsorId) ==
    [i \in 1..Len(DeploymentChannels) |->
        [channel |-> DeploymentChannels[i], type |-> ritual.mascot,
         sponsorId |-> sponsorId, ritualName |-> ritual.name]]

\* processShriningPing: the badge awarded (logBadgeDrop), the mascot deployed
\* when the threshold is met, the audit thread (createAuditLog); every call it
\* awaits is a stub that resolves
processShriningPing(h, event) ==
    LET ritual == determineRitual(event.misfireCount)
    IN IF ritual = Null
       THEN h
       ELSE [badgeLog |-> Append(h.badgeLog,
                             [badge |-> ritual.badge, sponsorId |-> event.sponsorId,
                              ritualId |-> ritual.id,
                              tier |-> determineBadgeTier(ritual.id)]),
             mascotMessages |->
                 IF shouldDeployMascot(ritual, event.misfireCount)
                 THEN h.mascotMessages \o MascotMessagesOf(ritual, event.sponsorId)
                 ELSE h.mascotMessages,
             relicThreads |-> Append(h.relicThreads,
                             [badge |-> ritual.badge, ritualId |-> ritual.id,
                              ritualName |-> ritual.name,
                              sponsorDiscord |-> event.sponsorId,
                              misfireCount |-> event.misfireCount])]

(***************************************************************************)
(* ShrinePingHandler (shrinePingHandler.js): relics by consecutive         *)
(* misfires.  h is the handler: misfireCount, relicTriggers, and what its  *)
(* triggers did (log), each entry with the number of calls that had        *)
(* resolved by then (resolved), which tells the streaks apart.             *)
(***************************************************************************)
\* handleShrineEvent: what it throws, or "processed"
handleShrineEvent(event, random) ==
    IF event = Null THEN "Invalid shrine event: null or undefined"
    ELSE IF random THEN "Simulated shrine ping failure"
    ELSE "processed"

\* triggerDeadwoodEcho that leaves relicTriggers.deadwoodEcho as it is
triggerDeadwoodEchoUnmarked(h) ==
    [h EXCEPT !.log = Append(@, [relic |-> "Deadwood Echo #109", audit |-> TRUE,
                                 mascot |-> FALSE, badge |-> "Watcher of the Void",
                                 misfireCount |-> h.misfireCount,
                                 resolved |-> h.resolved])]

\* triggerDeadwoodEcho: CopilotAudit.runAudit, the badge, then the flag; the
\* audit and the badge award are stubs that resolve
triggerDeadwoodEcho(h) ==
    [h EXCEPT !.log = Append(@, [relic |-> "Deadwood Echo #109", audit |-> TRUE,
                                 mascot |-> FALSE, badge |-> "Watcher of the Void",
                                 misfireCount |-> h.misfireCount,
                                 resolved |-> h.resolved]),
              !.relicTriggers.deadwoodEcho = TRUE]

\* triggerHeadlessJesterHauler: the mascot, the badge, then the flag
triggerHeadlessJesterHauler(h) ==
    [h EXCEPT !.log = Append(@, [relic |-> "Headless Jester Hauler #067", audit |-> FALSE,
                                 mascot |-> TRUE, badge |-> "Jester's Fragment",
                                 misfireCount |-> h.misfireCount,
                                 resolved |-> h.resolved]),
              !.relicTriggers.headlessJesterHauler = TRUE]

\* the Jester's condition with the mascot threshold Canon.md gives Relic #067
JesterDueAtSeven(h) ==
    h.misfireCount >= 7 /\ ~h.relicTriggers.headlessJesterHauler

\* the conditions of the two triggers in the catch of processShrineEvent
DeadwoodDue(h) ==
    h.misfireCount >= 5 /\ ~h.relicTriggers.deadwoodEcho
JesterDue(h) ==
    h.misfireCount >= 10 /\ ~h.relicTriggers.headlessJesterHauler

\* processShrineEvent: a processed event resets the count and the flags; a
\* failed one counts, runs the triggers that are due, and rethrows the error
processShrineEvent(h, event, random) ==
    LET outcome == handleShrineEvent(event, random)
    IN IF outcome = "processed"
       THEN [h EXCEPT !.misfireCount = 0,
                      !.relicTriggers = [deadwoodEcho |-> FALSE,
                                         headlessJesterHauler |-> FALSE],
                      !.calls = @ + 1, !.resolved = @ + 1, !.thrown = "none"]
       ELSE LET counted == [h EXCEPT !.misfireCount = @ + 1]
                audited == IF DeadwoodDue(counted) THEN triggerDeadwoodEcho(counted)
                           ELSE counted
                hauled == IF JesterDue(audited) THEN triggerHeadlessJesterHauler(audited)
                          ELSE audited
            IN [hauled EXCEPT !.calls = @ + 1, !.thrown = outcome]

(***************************************************************************)
(* retryWithBackoff(fn, maxRetries, baseDelayMs).                          *)
(***************************************************************************)
\* the default of baseDelayMs
DefaultBaseDelayMs == 500

\* what one call of fn can do: resolve with a value, reject with an Error, or
\* reject with a value that is not an Error (n tells the attempts apart)
FnOutcomes(n) ==
    {[ok |-> TRUE, value |-> n]}
        \cup {[ok |-> FALSE, error |-> [isError |-> e, message |-> n]] : e \in BOOLEAN}

\* error instanceof Error ? error : new Error(String(error))
NormalizeError(error) ==
    IF error.isError THEN error ELSE [isError |-> TRUE, message |-> error.message]

\* the test before the delay, wrong by one: a delay after the last attempt too
MoreAttemptsLeftAfterLast(attempt, maxRetries) == attempt < maxRetries

\* attempt < maxRetries - 1: the test before the delay
MoreAttemptsLeft(attempt, maxRetries) == attempt < maxRetries - 1

\* no call of retryWithBackoff yet
RetryIdle ==
    [phase |-> "idle", maxRetries |-> 0, baseDelayMs |-> 0, attempt |-> 0,
     outcomes |-> <<>>, delays |-> <<>>, result |-> Null, lastError |-> Null]

(***************************************************************************)
(* executeConcurrently(items, fn, concurrency).                            *)
(***************************************************************************)
\* no call of executeConcurrently yet.  executing holds the items whose task
\* is in the `executing` array, inFlight those whose fn has not settled yet,
\* starts and outcomes what fn was called for and what it did, woken whether
\* the Promise.race the call awaits has resolved
ConcurrentIdle ==
    [phase |-> "idle", items |-> 0, concurrency |-> 0, index |-> 0, executing |-> <<>>,
     inFlight |-> {}, results |-> <<>>, starts |-> <<>>, outcomes |-> <<>>, woken |-> FALSE]

\* the inner loop with `<=` for `<`: one task more than the ceiling
RECURSIVE StartTasksOverCeiling(_)
StartTasksOverCeiling(c) ==
    IF Len(c.executing) <= c.concurrency /\ c.index < c.items
    THEN StartTasksOverCeiling([c EXCEPT !.index = @ + 1,
                                        !.executing = Append(@, c.index + 1),
                                        !.inFlight = @ \cup {c.index + 1},
                                        !.starts[c.index + 1] = @ + 1])
    ELSE c

\* the inner loop: while (executing.length < concurrency && index < items.length)
\* call fn for items[index++] and push its task (items are numbered from 1)
RECURSIVE StartTasks(_)
StartTasks(c) ==
    IF Len(c.executing) < c.concurrency /\ c.index < c.items
    THEN StartTasks([c EXCEPT !.index = @ + 1,
                             !.executing = Append(@, c.index + 1),
                             !.inFlight = @ \cup {c.index + 1},
                             !.starts[c.index + 1] = @ + 1])
    ELSE c

\* one pass of the outer loop from its test on: fill, then await the race of
\* the tasks, or return when nothing is left; with nothing executing and
\* items left the loop goes round without awaiting
OuterLoop(c) ==
    IF c.index < c.items \/ Len(c.executing) > 0
    THEN LET f == StartTasks(c)
         IN [f EXCEPT !.woken = FALSE,
                      !.phase = IF Len(f.executing) > 0 THEN "racing"
                                ELSE IF f.index < f.items THEN "spinning" ELSE "returned"]
    ELSE [c EXCEPT !.phase = "returned"]

(***************************************************************************)
(* State.                                                                  *)
(***************************************************************************)
VARIABLES
    bots,               \* KypriaOrchestrator.bots: name -> [status, alignment]
    scrolls,            \* ScrollBot.scrolls: file -> alignment
    orchestrationState, \* 'idle' | 'converged' | 'realigning'
    lastAlignment,      \* KypriaOrchestrator.lastAlignment
    observedAlignment,  \* what lastAlignment was when the latest cycle checked it
    rituals,            \* every ritual object created so far, by id
    ritualQueue,        \* KypriaOrchestrator.ritualQueue (ids, head first)
    activeRituals,      \* KypriaOrchestrator.activeRituals (ids)
    timers,             \* ids with a pending setTimeout(completeRitual)
    pending,            \* async invocations suspended at `await createScroll`
    cycleLog,           \* the steps the latest orchestration cycle ran
    echoChambers,       \* EchoBot.echoChambers, in insertion order
    activeEchoes,       \* EchoBot.activeEchoes
    nextEchoId,         \* echoes created so far + 1
    createOutcome,      \* how the latest createEcho call ended
    delivered,          \* listeners the latest 'echo:created' emit called
    harmonicTimers,     \* pending generateHarmonics timers: echo id, harmonic kinds
    badgeTimers,        \* pending 'badge:special' timers of handleBadgeEcho
    pendingCritical,    \* 'Critical Echo Alert' scroll writes in flight
    handlerOutcome,     \* how the latest EchoBot event handler ended
    echoListeners,      \* times EchoBot.registerWithForgeBot has run
    harmonicEvents,     \* the 'echo:harmonic' notifications emitted so far, with counts
    realigning,         \* forceRealignment calls suspended in bot.initialize()
    unhandled,          \* a promise rejection or timer error reached the process
    hostExits,          \* the host ends the process on such an error
    shutdown,           \* process.exit was called
    arrived,            \* domain events adapters have emitted so far
    alignmentMatrix,    \* KypriaOrchestrator.alignmentMatrix: timestamp -> alignment
    now,                \* Date.now(), counted in the instants a sample was taken at
    badgeLog,           \* ShrinePingHandler.badgeLog
    relicThreads,       \* ShrinePingHandler.relicThreads
    mascotMessages,     \* the mascot messages ShrinePingHandler has sent, in order
    shrineEvent,        \* the event of the latest processShriningPing call
    testCase,           \* the latest case of the ShrinePingHandler test run
    shrineMisfires,     \* shrinePingHandler.js ShrinePingHandler.misfireCount
    relicTriggers,      \* ShrinePingHandler.relicTriggers
    relicLog,           \* what the relic triggers of that handler have done, in order
    shrineCalls,        \* its processShrineEvent calls: how many, how many resolved,
                        \* and what the latest one threw
    retry,              \* the retryWithBackoff call in progress, or its outcome
    concurrent          \* the executeConcurrently call in progress, or its outcome

orchVars == <<bots, scrolls, orchestrationState, lastAlignment, observedAlignment, rituals, ritualQueue,
              activeRituals, timers, pending, cycleLog>>
echoVars == <<echoChambers, activeEchoes, nextEchoId, createOutcome, delivered,
              harmonicTimers, badgeTimers, pendingCritical, handlerOutcome, echoListeners,
              harmonicEvents>>
histVars == <<alignmentMatrix, now>>
shrineVars == <<badgeLog, relicThreads, mascotMessages, shrineEvent, testCase>>
misfireVars == <<shrineMisfires, relicTriggers, relicLog, shrineCalls>>
utilVars == <<retry, concurrent>>
hostVars == <<realigning, unhandled, hostExits, shutdown, arrived, histVars, shrineVars, misfireVars, utilVars>>
vars == <<orchVars, echoVars, hostVars>>

\* no cycle has reached checkConvergenceOpportunities yet
NotObserved == [seen |-> FALSE, value |-> Zero, below |-> TRUE]
\* the record of a check: the alignment it saw, and whether every check since
\* the start, this one included, saw an alignment under the threshold
Observed(previous, alignment) ==
    [seen |-> TRUE, value |-> alignment,
     below |-> previous.below /\ RLt(alignment, convergenceThreshold)]

EmptyScrolls == [f \in {} |-> Zero]

\* the echo state the EchoBot operators work on
EchoState ==
    [chambers |-> echoChambers, active |-> activeEchoes, next |-> nextEchoId,
     outcome |-> createOutcome, delivered |-> delivered, harmonics |-> harmonicTimers,
     specialTimers |-> badgeTimers, critical |-> pendingCritical,
     handler |-> handlerOutcome, rejected |-> 0,
     emitted |-> harmonicEvents, orchestrated |-> DOMAIN bots # {}]

SetEchoState(e) ==
    /\ echoChambers' = e.chambers
    /\ activeEchoes' = e.active
    /\ nextEchoId' = e.next
    /\ createOutcome' = e.outcome
    /\ delivered' = e.delivered
    /\ harmonicTimers' = e.harmonics
    /\ badgeTimers' = e.specialTimers
    /\ pendingCritical' = e.critical
    /\ handlerOutcome' = e.handler
    /\ harmonicEvents' = e.emitted

\* an error nobody catches: MultiBotOrchestration's uncaughtException and
\* unhandledRejection handlers call emergencyShutdown -> process.exit(1)
Escapes(n) ==
    /\ unhandled' = (unhandled \/ n > 0)
    /\ shutdown' = (shutdown \/ (n > 0 /\ hostExits))

\* the state after `await orchestrator.initialize()`: the four bots registered,
\* an empty scroll directory loaded, the first calculateKypriaAlignment done
Init ==
    /\ scrolls = EmptyScrolls
    /\ bots = ManifestUpdate(
                [b \in BotNames |-> [status |-> "active", alignment |-> InitialAlignment(b)]],
                scrolls)
    /\ lastAlignment =
          NewLastAlignment([b \in BotNames |->
                               [status |-> "active", alignment |-> InitialAlignment(b)]])
    /\ orchestrationState = "idle"
    /\ rituals = <<>>
    /\ ritualQueue = <<>>
    /\ activeRituals = {}
    /\ timers = {}
    /\ pending = {}
    /\ cycleLog = [steps |-> <<>>, fault |-> FALSE, queuedRituals |-> 0]
    /\ echoChambers = <<>>
    /\ activeEchoes = 0
    /\ nextEchoId = 1
    /\ createOutcome = "none"
    /\ delivered = <<>>
    /\ harmonicTimers = {}
    /\ badgeTimers = 0
    /\ pendingCritical = 0
    /\ handlerOutcome = "none"
    /\ echoListeners = 1
    /\ harmonicEvents = {}
    /\ realigning = 0
    /\ unhandled = FALSE
    /\ hostExits \in BOOLEAN
    /\ shutdown = FALSE
    /\ arrived = 0
    /\ observedAlignment = NotObserved
    /\ now = 0
    /\ alignmentMatrix = storeAlignment(<<>>, now, lastAlignment)
    /\ badgeLog = <<>>
    /\ relicThreads = <<>>
    /\ mascotMessages = <<>>
    /\ shrineEvent = Null
    /\ testCase = Null
    /\ shrineMisfires = 0
    /\ retry = RetryIdle
    /\ concurrent = ConcurrentIdle
    /\ relicTriggers = [deadwoodEcho |-> FALSE, headlessJesterHauler |-> FALSE]
    /\ relicLog = <<>>
    /\ shrineCalls = [calls |-> 0, resolved |-> 0, thrown |-> "none"]


\* an EchoBot on its own, as test/orchestration-test.js builds it:
\* `new EchoBot(); echoBot.setupResonancePatterns()`, no orchestrator, no
\* listeners, no monitoring interval
InitStandalone ==
    /\ scrolls = EmptyScrolls
    /\ bots = [b \in {} |-> [status |-> "active", alignment |-> Zero]]
    /\ lastAlignment = Zero
    /\ orchestrationState = "idle"
    /\ rituals = <<>>
    /\ ritualQueue = <<>>
    /\ activeRituals = {}
    /\ timers = {}
    /\ pending = {}
    /\ cycleLog = [steps |-> <<>>, fault |-> FALSE, queuedRituals |-> 0]
    /\ echoChambers = <<>>
    /\ activeEchoes = 0
    /\ nextEchoId = 1
    /\ createOutcome = "none"
    /\ delivered = <<>>
    /\ harmonicTimers = {}
    /\ badgeTimers = 0
    /\ pendingCritical = 0
    /\ handlerOutcome = "none"
    /\ echoListeners = 0
    /\ harmonicEvents = {}
    /\ realigning = 0
    /\ unhandled = FALSE
    /\ hostExits \in BOOLEAN
    /\ shutdown = FALSE
    /\ arrived = 0
    /\ observedAlignment = NotObserved
    /\ now = 0
    /\ alignmentMatrix = <<>>
    /\ badgeLog = <<>>
    /\ relicThreads = <<>>
    /\ mascotMessages = <<>>
    /\ shrineEvent = Null
    /\ testCase = Null
    /\ shrineMisfires = 0
    /\ retry = RetryIdle
    /\ concurrent = ConcurrentIdle
    /\ relicTriggers = [deadwoodEcho |-> FALSE, headlessJesterHauler |-> FALSE]
    /\ relicLog = <<>>
    /\ shrineCalls = [calls |-> 0, resolved |-> 0, thrown |-> "none"]

(***************************************************************************)
(* Ritual objects.                                                         *)
(***************************************************************************)
NoData == [none |-> TRUE]

\* a ritual object; events counts the 'ritual:completed' events emitted for it,
\* calls the completeRitual calls made with its id
\* origin tells who created it: a caller of queueRitual, the convergence
\* controller, the handler of an event from outside, or the handler of an event
\* the orchestrator emitted itself
Ritual(type, priority, status, participants, data, origin) ==
    [type |-> type, priority |-> priority, status |-> status,
     participants |-> participants, data |-> data, events |-> 0, calls |-> 0,
     origin |-> origin]

Created(origin) == {i \in 1..Len(rituals) : rituals[i].origin = origin}

NextRitualId == Len(rituals) + 1
CanCreateRituals(n) == Len(rituals) + n <= MaxRituals

\* queueRitual(ritual) by a caller outside the orchestrator
QueueRitual(type, priority) ==
    /\ ~shutdown
    /\ CanCreateRituals(1)
    /\ Cardinality(Created("caller")) < MaxQueued
    /\ rituals' = Append(rituals, Ritual(type, priority, "none", <<>>, NoData, "caller"))
    /\ ritualQueue' = Enqueue(ritualQueue, NextRitualId, priority)
    /\ UNCHANGED <<bots, scrolls, orchestrationState, lastAlignment, observedAlignment, activeRituals,
                   timers, pending, cycleLog, echoVars, hostVars>>

completeRitualUnguarded(id) ==
    /\ rituals' = [rituals EXCEPT ![id].status = "completed", ![id].events = @ + 1,
                                  ![id].calls = @ + 1]
    /\ activeRituals' = activeRituals \ {id}

\* completeRitual(ritualId): acts only on a ritual found in activeRituals
completeRitual(id) ==
    IF id \in activeRituals
    THEN /\ rituals' = [rituals EXCEPT ![id].status = "completed", ![id].events = @ + 1,
                                       ![id].calls = @ + 1]
         /\ activeRituals' = activeRituals \ {id}
    ELSE /\ rituals' = [rituals EXCEPT ![id].calls = @ + 1]
         /\ UNCHANGED activeRituals

\* the setTimeout callback of a ritual: completeRitual(ritual.id)

RitualTimeout(id) ==
    /\ ~shutdown
    /\ id \in timers
    /\ timers' = timers \ {id}
    /\ completeRitual(id)
    /\ UNCHANGED <<bots, scrolls, orchestrationState, lastAlignment, observedAlignment, ritualQueue,
                   pending, cycleLog, echoVars, hostVars>>

\* completeRitual(ritual.id) called by a holder of the orchestrator, not by the
\* ritual's timer
CompleteRitualCall(id) ==
    /\ ~shutdown
    /\ id \in DOMAIN rituals
    /\ rituals[id].calls < MaxCompletionCalls
    /\ completeRitual(id)
    /\ UNCHANGED <<bots, scrolls, orchestrationState, lastAlignment, observedAlignment, ritualQueue,
                   timers, pending, cycleLog, echoVars, hostVars>>

(***************************************************************************)
(* The orchestration cycle (setInterval, 5 s).                             *)
(***************************************************************************)
\* checkConvergenceOpportunities: which branch a cycle takes
ConvergenceReached(alignment, state) ==
    RLeq(convergenceThreshold, alignment) /\ state # "converged"
ConvergenceLost(alignment, state) ==
    RLt(alignment, convergenceThreshold) /\ state = "converged"

DrainStart ==
    [queue |-> ritualQueue, active |-> activeRituals, rituals |-> rituals,
     timers |-> timers, fault |-> FALSE, taken |-> <<>>, admitted |-> <<>>]

\* performOrchestrationCycle up to its first suspension: heartbeats, queue
\* drain, alignment, convergence check and, unless performConvergenceRitual
\* is awaiting its scroll, the status event.  A cycle starts only after the
\* previous one has ended.
RealignmentRitualNormal ==
    Ritual("alignment_convergence", "normal", "none", <<>>,
           [targetAlignment |-> convergenceThreshold], "controller")

\* checkConvergenceOpportunities: the ritual it hands to queueRitual
RealignmentRitual ==
    Ritual("alignment_convergence", "high", "none", <<>>,
           [targetAlignment |-> convergenceThreshold], "controller")

\* room for the ritual a transition of the convergence state creates
CanStartTransition(rs) ==
    /\ Len(rs) < MaxRituals
    /\ Cardinality({i \in 1..Len(rs) : rs[i].origin = "controller"}) < MaxTransitions

\* the queuedRituals field of the 'orchestration:cycle' event, had the cycle
\* built the event before its convergence check
PublishedDepthBeforeCheck(drained, checked) == Len(drained)

\* the queuedRituals field of the 'orchestration:cycle' event: the length of
\* the queue when the convergence check has returned (`drained` is the queue
\* the drain left, `checked` the queue the check left)
PublishedDepth(drained, checked) == Len(checked)

OrchestrationCycle ==
    /\ ~shutdown
    /\ \A p \in pending : p.kind # "convergence"
    /\ LET d == processRitualQueue(DrainStart)
           la == NewLastAlignment(bots)
           bs == ManifestUpdate(bots, scrolls)
       IN /\ timers' = d.timers
          /\ activeRituals' = d.active
          /\ IF d.fault
             THEN \* executeRitual raised: the catch of the cycle logs it
                  /\ rituals' = d.rituals
                  /\ ritualQueue' = d.queue
                  /\ cycleLog' = [steps |-> <<"heartbeat", "drain">>, fault |-> TRUE,
                                  queuedRituals |-> 0]
                  /\ UNCHANGED <<bots, lastAlignment, observedAlignment, orchestrationState, pending,
                                 alignmentMatrix>>
             ELSE /\ bots' = bs
                  /\ lastAlignment' = la
                  /\ alignmentMatrix' = storeAlignment(alignmentMatrix, now, la)
                  /\ observedAlignment' = Observed(observedAlignment, la)
                  /\ IF ConvergenceReached(la, orchestrationState)
                     THEN \* performConvergenceRitual, up to `await createScroll`
                          /\ CanStartTransition(d.rituals)
                          /\ orchestrationState' = "converged"
                          /\ rituals' = Append(d.rituals,
                                  Ritual("convergence_ritual", "none", "active", BotOrder,
                                         [alignment |-> la], "controller"))
                          /\ ritualQueue' = d.queue
                          /\ pending' = pending \cup
                                  {[kind |-> "convergence", ritual |-> Len(d.rituals) + 1,
                                    misfireCount |-> 0]}
                          /\ cycleLog' = [steps |-> <<"heartbeat", "drain", "align", "check">>,
                                          fault |-> FALSE, queuedRituals |-> 0]
                     ELSE IF ConvergenceLost(la, orchestrationState)
                     THEN /\ CanStartTransition(d.rituals)
                          /\ orchestrationState' = "realigning"
                          /\ rituals' = Append(d.rituals, RealignmentRitual)
                          /\ ritualQueue' = Enqueue(d.queue, Len(d.rituals) + 1,
                                                    RealignmentRitual.priority)
                          /\ cycleLog' = [steps |-> <<"heartbeat", "drain", "align", "check",
                                                      "publish">>,
                                          fault |-> FALSE,
                                          queuedRituals |-> PublishedDepth(d.queue, ritualQueue')]
                          /\ UNCHANGED pending
                     ELSE /\ rituals' = d.rituals
                          /\ ritualQueue' = d.queue
                          /\ cycleLog' = [steps |-> <<"heartbeat", "drain", "align", "check",
                                                      "publish">>,
                                          fault |-> FALSE,
                                          queuedRituals |-> PublishedDepth(d.queue, ritualQueue')]
                          /\ UNCHANGED <<orchestrationState, pending>>
    /\ UNCHANGED <<scrolls, echoVars, realigning, unhandled, hostExits, shutdown, arrived, now,
                   shrineVars, misfireVars, utilVars>>

\* performConvergenceRitual after `await scrollBot.createScroll(...)`, and the
\* rest of the cycle that was waiting for it
ConvergenceResume(p, written) ==
    /\ ~shutdown
    /\ p \in pending
    /\ p.kind = "convergence"
    /\ pending' = pending \ {p}
    /\ IF ~written
       THEN \* fs.writeFile failed: createScroll raises, the cycle's catch logs it
            /\ cycleLog' = [cycleLog EXCEPT !.fault = TRUE]
            /\ UNCHANGED <<scrolls, activeRituals, timers, echoVars>>
       ELSE LET e == createEcho(EchoState, "convergence:achieved")
            IN /\ scrolls' = SetScroll(scrolls, "convergence", StoredAlignment(ConvergenceContent))
               /\ SetEchoState(e)
               /\ UNCHANGED echoListeners
               /\ IF e.outcome = "threw"
                  THEN \* the 'echo:created' listener raised through createEcho
                       /\ cycleLog' = [cycleLog EXCEPT !.fault = TRUE]
                       /\ UNCHANGED <<activeRituals, timers>>
                  ELSE /\ activeRituals' = activeRituals \cup {p.ritual}
                       /\ timers' = timers \cup {p.ritual}
                       /\ cycleLog' = [cycleLog EXCEPT
                                          !.steps = Append(@, "publish"),
                                          !.queuedRituals = PublishedDepth(ritualQueue, ritualQueue)]
    /\ UNCHANGED <<bots, orchestrationState, lastAlignment, observedAlignment, rituals, ritualQueue, hostVars>>

(***************************************************************************)
(* Domain events on the process-wide channel.  The listeners of each are   *)
(* EchoBot's handler (registerWithForgeBot, once per EchoBot.initialize)   *)
(* and the orchestrator's handler (setupInterBotCommunication).            *)
(***************************************************************************)
RECURSIVE RelicEchoes(_, _, _, _)
RelicEchoes(e, n, relicType, misfireCount) ==
    IF n = 0 THEN e
    ELSE RelicEchoes(handleRelicEcho(e, relicType, misfireCount), n - 1, relicType, misfireCount)

RECURSIVE BadgeEchoes(_, _, _)
BadgeEchoes(e, n, special) ==
    IF n = 0 THEN e ELSE BadgeEchoes(handleBadgeEcho(e, special), n - 1, special)

RECURSIVE ShrineEchoes(_, _, _)
ShrineEchoes(e, n, success) ==
    IF n = 0 THEN e ELSE ShrineEchoes(handleShrineEcho(e, success), n - 1, success)

\* the relic and badge data of the model
RelicType == "Deadwood Echo"
MisfireCounts == {7, 12}

\* handleRelicTrigger / handleBadgeAward up to `await scrollBot.createScroll`
HandlerStart(kind, misfireCount, origin) ==
    /\ rituals' = Append(rituals,
            Ritual(IF kind = "relic" THEN "relic_trigger" ELSE "badge_award",
                   "none", "active", <<"forgebot">>, NoData, origin))
    /\ pending' = pending \cup
            {[kind |-> kind, ritual |-> NextRitualId, misfireCount |-> misfireCount]}

\* process.emit('forgebot:relic:triggered', data) by an adapter
RelicTriggered(misfireCount) ==
    /\ ~shutdown
    /\ arrived' = arrived + 1
    /\ CanCreateRituals(1)
    /\ arrived < MaxEvents
    /\ LET e == RelicEchoes(EchoState, echoListeners, RelicType, misfireCount)
       IN /\ SetEchoState(e)
          /\ Escapes(e.rejected)
    /\ HandlerStart("relic", misfireCount, "event")
    /\ UNCHANGED <<bots, scrolls, orchestrationState, lastAlignment, observedAlignment, ritualQueue,
                   activeRituals, timers, cycleLog, echoListeners,
                   realigning, hostExits, histVars, shrineVars, misfireVars, utilVars>>

\* process.emit('forgebot:badge:awarded', data) by an adapter
BadgeAwarded(special) ==
    /\ ~shutdown
    /\ arrived' = arrived + 1
    /\ CanCreateRituals(1)
    /\ arrived < MaxEvents
    /\ LET e == BadgeEchoes(EchoState, echoListeners, special)
       IN /\ SetEchoState(e)
          /\ Escapes(e.rejected)
    /\ HandlerStart("badge", IF special THEN 1 ELSE 0, "event")
    /\ UNCHANGED <<bots, scrolls, orchestrationState, lastAlignment, observedAlignment, ritualQueue,
                   activeRituals, timers, cycleLog, echoListeners,
                   realigning, hostExits, histVars, shrineVars, misfireVars, utilVars>>

\* handleRelicTrigger / handleBadgeAward after the await: the handler emits the
\* event it is handling on the same channel, which runs EchoBot's handler and
\* starts another invocation of itself; then it stores its ritual
HandlerResume(p, written) ==
    /\ ~shutdown
    /\ p \in pending
    /\ p.kind \in {"relic", "badge"}
    /\ IF ~written
       THEN \* createScroll raised: the handler's promise rejects, nobody awaits it
            /\ pending' = pending \ {p}
            /\ Escapes(1)
            /\ UNCHANGED <<scrolls, rituals, activeRituals, timers, echoVars>>
       ELSE /\ CanCreateRituals(1)
            /\ scrolls' = SetScroll(scrolls, p.kind,
                              StoredAlignment(IF p.kind = "relic" THEN RelicContent
                                              ELSE BadgeContent))
            /\ LET e == IF p.kind = "relic"
                        THEN RelicEchoes(EchoState, echoListeners, RelicType, p.misfireCount)
                        ELSE BadgeEchoes(EchoState, echoListeners, p.misfireCount = 1)
               IN /\ SetEchoState(e)
                  /\ Escapes(e.rejected)
            /\ rituals' = Append(
                    [rituals EXCEPT ![p.ritual].participants =
                        <<"forgebot", "scrollbot", "echobot", "seasonalvoices">>],
                    Ritual(IF p.kind = "relic" THEN "relic_trigger" ELSE "badge_award",
                           "none", "active", <<"forgebot">>, NoData, "re-emit"))
            /\ pending' = (pending \ {p}) \cup
                    {[kind |-> p.kind, ritual |-> NextRitualId, misfireCount |-> p.misfireCount]}
            /\ activeRituals' = activeRituals \cup {p.ritual}
            /\ timers' = timers \cup {p.ritual}
            /\ UNCHANGED echoListeners
    /\ UNCHANGED <<bots, orchestrationState, lastAlignment, observedAlignment, ritualQueue, cycleLog,
                   realigning, hostExits, histVars, shrineVars, misfireVars, utilVars, arrived>>

\* handleShrinePing(data): whether it builds a ritual
SignificantPing(success, misfireCount) == ~success \/ misfireCount > 0

\* process.emit('forgebot:shrine:ping', data) by an adapter.  A significant
\* ping makes handleShrinePing emit the same event synchronously, so the
\* handler re-enters itself until the stack is exhausted (RangeError in the
\* innermost invocation, whose promise rejects); every outer invocation then
\* stores its ritual.  depth is the number of nested invocations.
ShrinePing(success, misfireCount) ==
    /\ ~shutdown
    /\ arrived' = arrived + 1
    /\ arrived < MaxEvents
    /\ IF SignificantPing(success, misfireCount)
       THEN LET depth == MaxStackDepth
                e == ShrineEchoes(EchoState, echoListeners * depth, success)
                ids == NextRitualId .. (NextRitualId + depth - 1)
            IN /\ CanCreateRituals(depth)
               /\ SetEchoState(e)
               /\ Escapes(e.rejected + 1)
               /\ rituals' = rituals \o
                     [i \in 1..depth |->
                         Ritual("shrine_response", "none", "active",
                                <<"forgebot", "echobot">>, NoData,
                                IF i = 1 THEN "event" ELSE "re-emit")]
               /\ activeRituals' = activeRituals \cup (ids \ {NextRitualId + depth - 1})
               /\ timers' = timers \cup (ids \ {NextRitualId + depth - 1})
       ELSE LET e == ShrineEchoes(EchoState, echoListeners, success)
            IN /\ SetEchoState(e)
               /\ Escapes(e.rejected)
               /\ UNCHANGED <<rituals, activeRituals, timers>>
    /\ UNCHANGED <<bots, scrolls, orchestrationState, lastAlignment, observedAlignment, ritualQueue,
                   pending, cycleLog, echoListeners, realigning, hostExits, histVars, shrineVars, misfireVars, utilVars>>

\* process.emit('forgebot:scroll:create', data): ScrollBot.handleScrollCreationRequest
\* awaits createScroll inside try/catch; the scroll is stored once written
ScrollCreationRequest(content, written) ==
    /\ ~shutdown
    /\ written
    /\ scrolls' = SetScroll(scrolls, "external", StoredAlignment(content))
    /\ scrolls' # scrolls
    /\ UNCHANGED <<bots, orchestrationState, lastAlignment, observedAlignment, rituals, ritualQueue,
                   activeRituals, timers, pending, cycleLog, echoVars, hostVars>>

(***************************************************************************)
(* forceRealignment.                                                       *)
(***************************************************************************)
\* forceRealignment up to the first `await bot.instance.initialize()` that
\* waits for the disk (ScrollBot.loadExistingScrolls)
ForceRealignment ==
    /\ ~shutdown
    /\ echoListeners + realigning <= MaxRealignments
    /\ orchestrationState' = "realigning"
    /\ realigning' = realigning + 1
    /\ UNCHANGED <<bots, scrolls, lastAlignment, observedAlignment, rituals, ritualQueue, activeRituals,
                   timers, pending, cycleLog, echoVars, unhandled,
                   hostExits, histVars, shrineVars, misfireVars, utilVars, arrived, shutdown>>

\* the files a reload finds for the scrolls createScroll wrote
ReloadedAlignment(f, old) ==
    CASE f = "convergence" -> ReloadAlignment({}, ConvergenceContent)
      [] f = "relic" -> ReloadAlignment({"echo"}, RelicContent)
      [] f = "badge" -> ReloadAlignment({"badge"}, BadgeContent)
      [] f = "critical" -> ReloadAlignment({"echo"}, CriticalContent)
      [] OTHER -> old

\* the rest of forceRealignment: ScrollBot reloads its scrolls, EchoBot
\* registers its listeners and its interval once more, then
\* calculateKypriaAlignment
ForceRealignmentResume ==
    /\ ~shutdown
    /\ realigning > 0
    /\ realigning' = realigning - 1
    /\ scrolls' = [f \in DOMAIN scrolls |-> ReloadedAlignment(f, scrolls[f])]
    /\ echoListeners' = echoListeners + 1
    /\ lastAlignment' = NewLastAlignment(bots)
    /\ alignmentMatrix' = storeAlignment(alignmentMatrix, now, lastAlignment')
    /\ UNCHANGED <<observedAlignment, now, shrineVars, misfireVars, utilVars>>
    /\ bots' = ManifestUpdate(bots, scrolls')
    /\ UNCHANGED <<orchestrationState, rituals, ritualQueue, activeRituals, timers,
                   pending, cycleLog, echoChambers, activeEchoes, nextEchoId,
                   createOutcome, delivered, harmonicTimers, badgeTimers, pendingCritical,
                   handlerOutcome, harmonicEvents, unhandled, hostExits, arrived, shutdown>>

(***************************************************************************)
(* The clock calculateKypriaAlignment reads.                               *)
(***************************************************************************)
\* Date.now() moves on to the next millisecond.  Only the instants at which
\* a sample is taken are counted: the order of the keys is all the history
\* depends on.
ClockTick ==
    /\ ~shutdown
    /\ now < MaxClock
    /\ now \in DOMAIN alignmentMatrix
    /\ now' = now + 1
    /\ UNCHANGED <<orchVars, echoVars, realigning, unhandled, hostExits, shutdown, arrived,
                   alignmentMatrix, shrineVars, misfireVars, utilVars>>

(***************************************************************************)
(* ShrinePingHandler: shrine events and the test run.                      *)
(***************************************************************************)
\* the misfireCount values of shrine events
ShrineMisfireCounts == (0 - 1)..MaxMisfireCount
ShrineSponsor == "user123"

\* handler.processShriningPing(shrineEvent)
ProcessShrinePing(misfireCount) ==
    /\ Len(badgeLog) < MaxPings
    /\ shrineEvent' = [misfireCount |-> misfireCount, sponsorId |-> ShrineSponsor]
    /\ LET h == processShriningPing(
                   [badgeLog |-> badgeLog, mascotMessages |-> mascotMessages,
                    relicThreads |-> relicThreads], shrineEvent')
       IN /\ badgeLog' = h.badgeLog
          /\ mascotMessages' = h.mascotMessages
          /\ relicThreads' = h.relicThreads
    /\ UNCHANGED <<orchVars, echoVars, realigning, unhandled, hostExits, shutdown, arrived,
                   histVars, testCase, misfireVars, utilVars>>

\* one case of runTests: determineRitual and, for a ritual, shouldDeployMascot
RunTestCase(misfireCount) ==
    /\ LET ritual == determineRitual(misfireCount)
       IN testCase' = [misfireCount |-> misfireCount, ritual |-> ritual,
                       shouldDeploy |-> IF ritual = Null THEN FALSE
                                        ELSE shouldDeployMascot(ritual, misfireCount)]
    /\ UNCHANGED <<orchVars, echoVars, realigning, unhandled, hostExits, shutdown, arrived,
                   histVars, badgeLog, relicThreads, mascotMessages, shrineEvent, misfireVars, utilVars>>

(***************************************************************************)
(* ShrinePingHandler (shrinePingHandler.js): events, one after the other   *)
(* as every caller in the repository awaits each call.                     *)
(***************************************************************************)
ShrineEvents == {Null, [type |-> "test_event"]}

\* await handler.processShrineEvent(event); random is Math.random() < 0.3
ProcessShrineEvent(event, random) ==
    /\ shrineCalls.calls < MaxShrineEvents
    /\ LET h == processShrineEvent(
                   [misfireCount |-> shrineMisfires, relicTriggers |-> relicTriggers,
                    log |-> relicLog, calls |-> shrineCalls.calls,
                    resolved |-> shrineCalls.resolved, thrown |-> shrineCalls.thrown],
                   event, random)
       IN /\ shrineMisfires' = h.misfireCount
          /\ relicTriggers' = h.relicTriggers
          /\ relicLog' = h.log
          /\ shrineCalls' = [calls |-> h.calls, resolved |-> h.resolved, thrown |-> h.thrown]
    /\ UNCHANGED <<orchVars, echoVars, realigning, unhandled, hostExits, shutdown, arrived,
                   histVars, shrineVars, utilVars>>

(***************************************************************************)
(* EchoBot: direct calls and timers.                                       *)
(***************************************************************************)
\* the event types callers of createEcho use in the model ('test:echo' has no
\* resonance pattern, so it gets the default one)
CallerEchoTypes == {"test:echo"}

\* echoBot.createEcho(type, data) by a caller that catches what it raises
CreateEchoCall(type) ==
    /\ ~shutdown
    /\ nextEchoId <= MaxEchoIds
    /\ SetEchoState(createEcho(EchoState, type))
    /\ UNCHANGED <<orchVars, echoListeners, hostVars>>

\* the period of the monitoring interval (ms)
MonitorPeriod == 1000

\* the event types and the times since the latest monitor callback (ms) at
\* which callers create echoes where the decay is followed
DecayEchoTypes == {"relic:deadwood", "shrine:ping", "test:echo"}
TickOffsets == {0, 500}

\* echoBot.createEcho(type, data) called elapsed ms after the latest monitor
\* callback: the callbacks see the echo at the ages MonitorPeriod - elapsed,
\* 2 * MonitorPeriod - elapsed, ...; age is kept relative to the latest callback
CreateEchoBetweenTicks(type, elapsed) ==
    /\ ~shutdown
    /\ nextEchoId <= MaxDecayEchoes
    /\ LET c == createEcho(EchoState, type)
       IN SetEchoState(IF c.outcome = "dropped" THEN c
                       ELSE [c EXCEPT !.chambers[Len(c.chambers)].age = 0 - elapsed])
    /\ UNCHANGED <<orchVars, echoListeners, hostVars>>

DecayedUnmarked(echo) ==
    LET pat == Pattern(echo.type)
    IN IF echo.resonating /\ echo.age < pat.decay
       THEN [echo EXCEPT !.amplitude = RMul(pat.amplitude, Rat(pat.decay - echo.age, pat.decay))]
       ELSE echo

\* updateEchoResonance, for one echo at the time of the callback
Decayed(echo) ==
    LET pat == Pattern(echo.type)
    IN IF echo.resonating /\ echo.age < pat.decay
       THEN LET a == RMul(pat.amplitude, Rat(pat.decay - echo.age, pat.decay))
            IN [echo EXCEPT !.amplitude = a,
                            !.resonating = ~RLeq(a, Rat(1, 10))]
       ELSE echo

ExpiredLate(echo) ==
    echo.age > Pattern(echo.type).decay \/ RLeq(echo.amplitude, Rat(5, 100))

\* cleanupExpiredEchoes: the test for removal
Expired(echo) ==
    echo.age >= Pattern(echo.type).decay \/ RLeq(echo.amplitude, Rat(5, 100))

\* the callback of startEchoMonitoring's interval, one period after the
\* previous one: updateEchoResonance, then cleanupExpiredEchoes.  An interval
\* is registered by every EchoBot.initialize, so it runs echoListeners times.
AgedBy(chambers, ms) == [i \in 1..Len(chambers) |-> [chambers[i] EXCEPT !.age = @ + ms]]

\* updateEchoResonance, over the chambers
updateEchoResonance(chambers) == [i \in 1..Len(chambers) |-> Decayed(chambers[i])]

\* cleanupExpiredEchoes, over the chambers
cleanupExpiredEchoes(chambers) == SelectSeq(chambers, LAMBDA echo : ~Expired(echo))

EchoMonitor ==
    /\ ~shutdown
    /\ echoChambers # <<>>
    /\ LET aged == updateEchoResonance(AgedBy(echoChambers, MonitorPeriod))
           kept == cleanupExpiredEchoes(aged)
       IN /\ echoChambers' = kept
          /\ activeEchoes' = activeEchoes - (Len(aged) - Len(kept))
    /\ UNCHANGED <<orchVars, nextEchoId, createOutcome, delivered, harmonicTimers,
                   badgeTimers, pendingCritical, handlerOutcome, echoListeners,
                   harmonicEvents, hostVars>>

\* the multipliers callers of amplifyEcho pass in the model (1.5 is the default)
AmplifyMultipliers == {Rat(15, 10), Rat(3, 1)}

\* echoBot.amplifyEcho(echoId, multiplier) by a caller; the listener of
\* 'echo:amplified', handleEchoAmplification, starts createScroll without
\* awaiting it when the amplitude is over 1.5
AmplifyCall(id, multiplier) ==
    /\ ~shutdown
    /\ amplifyEcho(EchoState, id, multiplier).critical <= MaxCriticalWrites
    /\ SetEchoState(amplifyEcho(EchoState, id, multiplier))
    /\ UNCHANGED <<orchVars, echoListeners, hostVars>>

\* the createScroll('Critical Echo Alert - ...') that handleEchoAmplification
\* started, after its `await fs.writeFile`; nobody awaits its promise
CriticalScrollWritten(written) ==
    /\ ~shutdown
    /\ pendingCritical > 0
    /\ pendingCritical' = pendingCritical - 1
    /\ IF written
       THEN /\ scrolls' = SetScroll(scrolls, "critical", StoredAlignment(CriticalContent))
            /\ Escapes(0)
       ELSE /\ Escapes(1)
            /\ UNCHANGED scrolls
    /\ UNCHANGED <<bots, orchestrationState, lastAlignment, observedAlignment, rituals,
                   ritualQueue, activeRituals, timers, pending, cycleLog,
                   echoChambers, activeEchoes, nextEchoId, createOutcome, delivered,
                   harmonicTimers, badgeTimers, handlerOutcome, echoListeners, harmonicEvents,
                   realigning, hostExits, histVars, shrineVars, misfireVars, utilVars, arrived>>

\* the event types callers of createEcho use where the harmonics are followed:
\* 'shrine:ping' has three harmonic kinds, 'test:echo' (default pattern) none
HarmonicEchoTypes == {"shrine:ping", "test:echo"}

\* generateHarmonics: the notifications the timer callback emits, one
\* 'echo:harmonic' per harmonic kind of the pattern, with id <parent>-h<index>
Harmonics(parent, kinds) ==
    {[parent |-> parent, index |-> i, times |-> 1] : i \in 0..(kinds - 1)}

generateHarmonicsStored(e, t) ==
    [e EXCEPT !.harmonics = @ \ {t},
              !.emitted = @ \cup Harmonics(t.id, t.kinds),
              !.active = @ + t.kinds]

\* generateHarmonics: the timer callback on the echo state; the harmonic echoes
\* are plain objects handed to emit, 'echo:harmonic' has no listener
generateHarmonics(e, t) ==
    [e EXCEPT !.harmonics = @ \ {t},
              !.emitted = @ \cup Harmonics(t.id, t.kinds)]

\* the setTimeout callback of generateHarmonics (500 ms after createEcho; timers
\* of equal delay fire in the order they were set)
HarmonicTimer(t) ==
    /\ ~shutdown
    /\ t \in harmonicTimers
    /\ \A u \in harmonicTimers : t.id <= u.id
    /\ SetEchoState(generateHarmonics(EchoState, t))
    /\ UNCHANGED <<orchVars, echoListeners, hostVars>>

\* the timer handleBadgeEcho sets for a special badge: createEcho('badge:special')
\* in a timer callback, where an error is an uncaught exception
BadgeSpecialTimer ==
    /\ ~shutdown
    /\ badgeTimers > 0
    /\ nextEchoId <= MaxEchoIds
    /\ LET e == createEcho([EchoState EXCEPT !.specialTimers = @ - 1], "badge:special")
       IN /\ SetEchoState(e)
          /\ Escapes(IF e.outcome = "threw" THEN 1 ELSE 0)
    /\ UNCHANGED <<orchVars, echoListeners, realigning, hostExits, histVars, shrineVars, misfireVars, utilVars, arrived>>

(***************************************************************************)
(* Specifications.  Spec is the orchestrator with its callers; SpecEvents  *)
(* is the orchestrator under domain events; SpecEcho is EchoBot with its   *)
(* callers, its timers and the first delivery of a domain event.           *)
(***************************************************************************)
Next ==
    \/ \E t \in QueueTypes, pr \in Priorities : QueueRitual(t, pr)
    \/ \E id \in timers : RitualTimeout(id)
    \/ OrchestrationCycle
    \/ \E p \in pending, w \in BOOLEAN : ConvergenceResume(p, w)
    \/ \E c \in ExternalContents : ScrollCreationRequest(c, TRUE)
    \/ ForceRealignment
    \/ ForceRealignmentResume

Spec == Init /\ [][Next]_vars

NextEvents ==
    \/ \E id \in timers : RitualTimeout(id)
    \/ OrchestrationCycle
    \/ \E m \in MisfireCounts : RelicTriggered(m)
    \/ \E sp \in BOOLEAN : BadgeAwarded(sp)
    \/ \E p \in pending, w \in BOOLEAN : HandlerResume(p, w)
    \/ \E ok \in BOOLEAN, m \in {0, 3} : ShrinePing(ok, m)

SpecEvents == Init /\ [][NextEvents]_vars

(***************************************************************************)
(* retryWithBackoff: the call, each attempt of fn, each backoff delay.     *)
(***************************************************************************)
\* retryWithBackoff(fn, maxRetries, baseDelayMs) up to the first `await fn()`;
\* with no attempt to make the loop is skipped and `throw lastError` raises
\* the unassigned variable
RetryWithBackoff(maxRetries, baseDelayMs) ==
    /\ retry.phase \in {"idle", "returned", "thrown"}
    /\ retry' = [RetryIdle EXCEPT !.maxRetries = maxRetries,
                                  !.baseDelayMs = baseDelayMs,
                                  !.phase = IF 0 < maxRetries THEN "attempt" ELSE "thrown"]
    /\ UNCHANGED <<orchVars, echoVars, realigning, unhandled, hostExits, shutdown, arrived,
                   histVars, shrineVars, misfireVars, concurrent>>

\* `await fn()` settles: return its value, or keep the error and either start
\* the delay or leave the loop and throw
FnSettles(outcome) ==
    /\ retry.phase = "attempt"
    /\ LET r == [retry EXCEPT !.outcomes = Append(@, outcome)]
       IN retry' =
            IF outcome.ok
            THEN [r EXCEPT !.phase = "returned", !.result = outcome.value]
            ELSE LET f == [r EXCEPT !.lastError = NormalizeError(outcome.error)]
                 IN IF MoreAttemptsLeft(f.attempt, f.maxRetries)
                    THEN [f EXCEPT !.phase = "waiting",
                                   !.delays = Append(@, f.baseDelayMs * 2^f.attempt)]
                    ELSE [f EXCEPT !.attempt = @ + 1,
                                   !.phase = IF f.attempt + 1 < f.maxRetries
                                             THEN "attempt" ELSE "thrown"]
    /\ UNCHANGED <<orchVars, echoVars, realigning, unhandled, hostExits, shutdown, arrived,
                   histVars, shrineVars, misfireVars, concurrent>>

\* the setTimeout of the delay fires: attempt++ and the loop test
BackoffElapsed ==
    /\ retry.phase = "waiting"
    /\ retry' = [retry EXCEPT !.attempt = @ + 1,
                              !.phase = IF retry.attempt + 1 < retry.maxRetries
                                        THEN "attempt" ELSE "thrown"]
    /\ UNCHANGED <<orchVars, echoVars, realigning, unhandled, hostExits, shutdown, arrived,
                   histVars, shrineVars, misfireVars, concurrent>>

NextRetry ==
    \/ \E m \in 0..MaxRetriesArg, b \in {1, DefaultBaseDelayMs} : RetryWithBackoff(m, b)
    \/ \E o \in FnOutcomes(Len(retry.outcomes)) : FnSettles(o)
    \/ BackoffElapsed

SpecRetry == Init /\ [][NextRetry]_vars

(***************************************************************************)
(* executeConcurrently: the call, the settling of each fn promise, the     *)
(* finally callback of each task, and the resumption after Promise.race.   *)
(***************************************************************************)
\* executeConcurrently(items, fn, concurrency) up to its first await (or to
\* its return when there is no item)
ExecuteConcurrently(n, concurrency) ==
    /\ concurrent.phase \in {"idle", "returned"}
    /\ concurrent' = OuterLoop([ConcurrentIdle EXCEPT
                                   !.items = n,
                                   !.concurrency = concurrency,
                                   !.results = [i \in 1..n |-> Null],
                                   !.starts = [i \in 1..n |-> 0],
                                   !.outcomes = [i \in 1..n |-> Null]])
    /\ UNCHANGED <<orchVars, echoVars, realigning, unhandled, hostExits, shutdown, arrived,
                   histVars, shrineVars, misfireVars, retry>>

\* the promise of fn(items[i], i) settles and its .then or .catch callback
\* stores the result or the Error at results[i]
TaskSettles(i, outcome) ==
    /\ i \in concurrent.inFlight
    /\ concurrent' = [concurrent EXCEPT
                         !.inFlight = @ \ {i},
                         !.outcomes[i] = outcome,
                         !.results[i] = IF outcome.ok THEN outcome.value
                                        ELSE NormalizeError(outcome.error)]
    /\ UNCHANGED <<orchVars, echoVars, realigning, unhandled, hostExits, shutdown, arrived,
                   histVars, shrineVars, misfireVars, retry>>

\* the .finally callback of task i removes the task from executing; the task
\* resolves and with it the race
TaskFinally(i) ==
    /\ \E k \in DOMAIN concurrent.executing : concurrent.executing[k] = i
    /\ i \notin concurrent.inFlight
    /\ concurrent' = [concurrent EXCEPT
                         !.executing = SelectSeq(@, LAMBDA j : j # i),
                         !.woken = TRUE]
    /\ UNCHANGED <<orchVars, echoVars, realigning, unhandled, hostExits, shutdown, arrived,
                   histVars, shrineVars, misfireVars, retry>>

\* `await Promise.race(executing)` resumes and the outer loop goes on
RaceResumes ==
    /\ concurrent.phase = "racing"
    /\ concurrent.woken
    /\ concurrent' = OuterLoop(concurrent)
    /\ UNCHANGED <<orchVars, echoVars, realigning, unhandled, hostExits, shutdown, arrived,
                   histVars, shrineVars, misfireVars, retry>>

NextConcurrent ==
    \/ \E n \in 0..MaxItems, k \in 1..MaxConcurrency : ExecuteConcurrently(n, k)
    \/ \E i \in concurrent.inFlight : \E o \in FnOutcomes(i) : TaskSettles(i, o)
    \/ \E i \in 1..concurrent.items : TaskFinally(i)
    \/ RaceResumes

\* every fn promise settles and every callback that is due runs
SpecConcurrent == Init /\ [][NextConcurrent]_vars /\ WF_vars(NextConcurrent)

\* the event channel with a holder of the orchestrator that calls
\* forceRealignment between events
NextRealign ==
    \/ ForceRealignment
    \/ ForceRealignmentResume
    \/ \E m \in MisfireCounts : RelicTriggered(m)
    \/ \E sp \in BOOLEAN : BadgeAwarded(sp)
    \/ \E p \in pending, w \in BOOLEAN : HandlerResume(p, w)
    \/ \E id \in timers : RitualTimeout(id)

SpecRealign == Init /\ [][NextRealign]_vars

NextEcho ==
    \/ \E t \in CallerEchoTypes : CreateEchoCall(t)
    \/ EchoMonitor
    \/ BadgeSpecialTimer
    \/ \E m \in MisfireCounts : RelicTriggered(m)
    \/ \E sp \in BOOLEAN : BadgeAwarded(sp)
    \/ \E ok \in BOOLEAN, m \in {0, 3} : ShrinePing(ok, m)

SpecEcho == Init /\ [][NextEcho]_vars

\* the queue and its timers under a scheduler that runs what is due: a timer
\* that is pending fires (setTimeout)
NextLive ==
    \/ \E t \in QueueTypes, pr \in Priorities : QueueRitual(t, pr)
    \/ \E id \in timers : RitualTimeout(id)
    \/ OrchestrationCycle
    \/ ForceRealignment
    \/ ForceRealignmentResume

SpecLive ==
    /\ Init
    /\ [][NextLive]_vars
    /\ \A id \in 1..MaxRituals : WF_vars(RitualTimeout(id))

\* the queue with callers that also call completeRitual themselves
NextComplete ==
    \/ \E t \in QueueTypes, pr \in Priorities : QueueRitual(t, pr)
    \/ \E id \in timers : RitualTimeout(id)
    \/ \E id \in DOMAIN rituals : CompleteRitualCall(id)
    \/ OrchestrationCycle

SpecComplete == Init /\ [][NextComplete]_vars

\* EchoBot with callers that create echoes and amplify them, and its monitor
NextAmplify ==
    \/ \E t \in CallerEchoTypes : nextEchoId <= MaxAmplifyEchoes /\ CreateEchoCall(t)
    \/ \E id \in 1..nextEchoId, m \in AmplifyMultipliers : AmplifyCall(id, m)
    \/ EchoMonitor
    \/ \E w \in BOOLEAN : CriticalScrollWritten(w)

SpecAmplify == Init /\ [][NextAmplify]_vars

\* EchoBot with echoes created at any time between two monitor callbacks
NextDecay ==
    \/ \E t \in DecayEchoTypes, el \in TickOffsets : CreateEchoBetweenTicks(t, el)
    \/ \E id \in 1..nextEchoId, m \in AmplifyMultipliers : AmplifyCall(id, m)
    \/ EchoMonitor

SpecDecay == Init /\ [][NextDecay]_vars

\* the same under a scheduler that keeps running the monitoring interval:
\* weak fairness of EchoMonitor, WF_vars(EchoMonitor), written with its
\* enabling condition (the callback changes the age of every echo, so it is
\* enabled exactly when the process runs and the chambers are not empty)
SpecDecayLive ==
    /\ Init
    /\ [][NextDecay]_vars
    /\ \/ []<>(shutdown \/ echoChambers = <<>>)
       \/ []<><<EchoMonitor>>_vars

\* an EchoBot on its own with callers of createEcho and its harmonic timers
NextHarmonics ==
    \/ \E t \in HarmonicEchoTypes : CreateEchoCall(t)
    \/ \E t \in harmonicTimers : HarmonicTimer(t)

SpecHarmonics == InitStandalone /\ [][NextHarmonics]_vars

\* setInterval(performOrchestrationCycle, 5000): a cycle runs milliseconds
\* after initialize's computation and after the previous cycle's, so at an
\* instant no sample has been taken at yet
IntervalCycle ==
    /\ now \notin DOMAIN alignmentMatrix
    /\ OrchestrationCycle

\* the alignment history: the cycles, forced realignments and the clock
NextHistory ==
    \/ IntervalCycle
    \/ ForceRealignment
    \/ ForceRealignmentResume
    \/ ClockTick

SpecHistory == Init /\ [][NextHistory]_vars

\* the ShrinePingHandler on its own
NextShrine ==
    \/ \E m \in ShrineMisfireCounts : ProcessShrinePing(m)
    \/ \E m \in ShrineMisfireCounts : RunTestCase(m)

SpecShrine == Init /\ [][NextShrine]_vars

\* the misfire-counting ShrinePingHandler on its own
NextMisfire ==
    \E event \in ShrineEvents, random \in BOOLEAN : ProcessShrineEvent(event, random)

SpecMisfire == Init /\ [][NextMisfire]_vars

(***************************************************************************)
(* Properties.                                                             *)
(***************************************************************************)
Range(f) == {f[i] : i \in DOMAIN f}

\* C1: in every reachable state the number of rituals in activeRituals is at
\* most the concurrency ceiling of 5, whichever path put them there (queue
\* admission, the relic/badge/shrine-ping handlers, the convergence controller)
C1_CeilingRespected == Cardinality(activeRituals) <= ConcurrencyCeiling

\* C2: the queue is admitted head first, so the claim is about its order: every
\* high-priority ritual stands before every normal one, and within a priority
\* class the rituals stand in the order they were enqueued (ids grow with the
\* time of the queueRitual call)
C2_QueueOrder ==
    \A i, j \in 1..Len(ritualQueue) :
        i < j =>
            LET a == rituals[ritualQueue[i]]
                b == rituals[ritualQueue[j]]
            IN /\ ~(a.priority # "high" /\ b.priority = "high")
               /\ (a.priority = "high") = (b.priority = "high") => ritualQueue[i] < ritualQueue[j]

\* C3: a ritual whose handler raised is not left in status executing: every
\* ritual in status executing is in activeRituals with its completion scheduled
C3_HandlerErrorContained ==
    \A id \in 1..Len(rituals) :
        rituals[id].status = "executing" => id \in activeRituals /\ id \in timers

\* C4: an error of a ritual handler during the queue drain does not abort the
\* cycle: a cycle that has started the drain also recomputes the alignment and
\* runs the convergence check
C4_CycleSurvivesHandlerError ==
    "drain" \in Range(cycleLog.steps) =>
        "align" \in Range(cycleLog.steps) /\ "check" \in Range(cycleLog.steps)

\* C5: publishing 'echo:created' calls every subscriber, and an error of a
\* subscriber does not reach the publisher: a createEcho call that stored its
\* echo returns normally after all the subscribers were called
C5_SubscriberIsolated ==
    createOutcome \notin {"none", "dropped"} =>
        createOutcome = "returned" /\ delivered = Subscribers("echo:created")

\* the steps in which createEcho is called
CallsCreateEcho ==
    \/ \E t \in CallerEchoTypes : CreateEchoCall(t)
    \/ BadgeSpecialTimer
    \/ \E m \in MisfireCounts : RelicTriggered(m)
    \/ \E sp \in BOOLEAN : BadgeAwarded(sp)
    \/ \E ok \in BOOLEAN, m \in {0, 3} : ShrinePing(ok, m)

\* C6: the active echo count never exceeds the capacity of 10, and a createEcho
\* call made while the count equals the capacity is rejected and leaves the
\* echo set and the count as they were
C6_EchoCapacity ==
    /\ [](activeEchoes <= maxEchoes /\ Len(echoChambers) <= maxEchoes)
    /\ [][CallsCreateEcho /\ activeEchoes = maxEchoes =>
            /\ createOutcome' = "dropped"
            /\ UNCHANGED <<echoChambers, activeEchoes>>]_vars

\* the chambers are full and the latest createEcho call was rejected
C6_Witness ==
    /\ activeEchoes = maxEchoes
    /\ Len(echoChambers) = maxEchoes
    /\ createOutcome = "dropped"

\* C7: a rejected createEcho is never fatal: no event handler of EchoBot ends
\* with an error because the echo it asked for was rejected
C7_RejectionNotFatal == handlerOutcome # "null-dereference"

\* a step of the orchestration cycle that got as far as the convergence check
CycleChecks == OrchestrationCycle /\ "check" \in Range(cycleLog'.steps)

\* the names of the active components
ActiveNames(bs) == SelectSeq(BotOrder, LAMBDA b : b \in getActiveBots(bs))

\* C8: a cycle that observes alignment >= 0.85 while the state is not
\* converged makes the state converged and puts exactly one new
\* convergence_ritual on the ritual queue, with priority high and the names of
\* all active components as its participants
C8_ConvergenceEnqueued ==
    [][CycleChecks /\ RLeq(convergenceThreshold, lastAlignment')
          /\ orchestrationState # "converged" =>
            /\ orchestrationState' = "converged"
            /\ Len(rituals') = Len(rituals) + 1
            /\ LET r == rituals'[Len(rituals')]
               IN /\ r.type = "convergence_ritual"
                  /\ r.priority = "high"
                  /\ r.participants = ActiveNames(bots')
            /\ Cardinality({i \in 1..Len(ritualQueue') :
                                ritualQueue'[i] = Len(rituals')}) = 1]_vars

\* whether two alignments are on the same side of the threshold
SameSide(a, b) == RLeq(convergenceThreshold, a) = RLeq(convergenceThreshold, b)

\* C9: transitions are edge-triggered: a cycle that observes the alignment on
\* the side of the threshold where the cycle before it observed it neither
\* changes the state nor creates a convergence or realignment ritual
C9_EdgeTriggered ==
    [][CycleChecks /\ observedAlignment.seen
          /\ SameSide(observedAlignment.value, lastAlignment') =>
            /\ orchestrationState' = orchestrationState
            /\ Len(rituals') = Len(rituals)]_vars

\* C10: a cycle that observes alignment < 0.85 while the state is converged
\* makes the state realigning and creates exactly one ritual, an
\* alignment_convergence with priority high whose target is the threshold,
\* which is at the head of the ritual queue after the cycle
C10_RealignmentEnqueued ==
    [][CycleChecks /\ RLt(lastAlignment', convergenceThreshold)
          /\ orchestrationState = "converged" =>
            /\ orchestrationState' = "realigning"
            /\ Len(rituals') = Len(rituals) + 1
            /\ LET r == rituals'[Len(rituals')]
               IN /\ r.type = "alignment_convergence"
                  /\ r.priority = "high"
                  /\ r.data = [targetAlignment |-> convergenceThreshold]
                  /\ r.status = "none"
            /\ ritualQueue' # <<>>
            /\ Head(ritualQueue') = Len(rituals')
            /\ \A i \in 2..Len(ritualQueue') : ritualQueue'[i] # Len(rituals')]_vars

\* the controller has left converged: the state is realigning and the ritual
\* at the head of the queue is the alignment_convergence ritual it created
C10_Witness ==
    /\ orchestrationState = "realigning"
    /\ ritualQueue # <<>>
    /\ rituals[Head(ritualQueue)].type = "alignment_convergence"
    /\ rituals[Head(ritualQueue)].origin = "controller"
    /\ cycleLog.steps = <<"heartbeat", "drain", "align", "check", "publish">>

\* C11: as long as every cycle since the start has observed an alignment under
\* the threshold, the state is idle and the controller has created no ritual,
\* neither a convergence ritual nor a realignment ritual
C11_StaysIdle ==
    observedAlignment.below =>
        /\ orchestrationState = "idle"
        /\ Created("controller") = {}

\* the part of C11 about the controller: under the same condition it has
\* created no ritual
C11_NoControllerRitual ==
    observedAlignment.below => Created("controller") = {}

\* C12: the orchestration state is one of idle, converged, realigning, and it
\* changes only in the convergence check of a cycle: into converged from idle
\* or realigning when the check observes alignment >= 0.85, into realigning
\* only from converged when it observes alignment < 0.85; no other operation
\* changes it
C12_StateMachine ==
    /\ [](orchestrationState \in {"idle", "converged", "realigning"})
    /\ [][orchestrationState' # orchestrationState =>
            /\ CycleChecks
            /\ \/ /\ orchestrationState' = "converged"
                  /\ orchestrationState \in {"idle", "realigning"}
                  /\ RLeq(convergenceThreshold, lastAlignment')
               \/ /\ orchestrationState' = "realigning"
                  /\ orchestrationState = "converged"
                  /\ RLt(lastAlignment', convergenceThreshold)]_vars

\* the steps that run calculateKypriaAlignment
ComputesAlignment ==
    \/ OrchestrationCycle /\ "align" \in Range(cycleLog'.steps)
    \/ ForceRealignmentResume

\* the arithmetic mean of the alignments of the active components, 0 without one
MeanOfActive(bs) ==
    LET n == Cardinality(getActiveBots(bs))
    IN IF n = 0 THEN Zero ELSE RDivInt(TotalAlignment(bs, 1), n)

\* C13: after every alignment computation lastAlignment is the arithmetic mean
\* of the alignment values the active components have then (0 when none is
\* active), and the convergence check of a cycle decides on that value
C13_AlignmentIsMean ==
    [][ComputesAlignment =>
          /\ lastAlignment' = MeanOfActive(bots')
          /\ CycleChecks => observedAlignment'.value = MeanOfActive(bots')]_vars

\* C14: every ritual taken from the queue for execution (executeRitual has
\* set its status to executing) eventually has status completed and is out of
\* the active set
C14_TakenEventuallyCompleted ==
    \A id \in 1..MaxRituals :
        (id \in DOMAIN rituals /\ rituals[id].status = "executing")
            ~> (/\ id \in DOMAIN rituals
                /\ rituals[id].status = "completed"
                /\ id \notin activeRituals)

\* the steps in which completeRitual is called with id
CallsCompleteRitual(id) == RitualTimeout(id) \/ CompleteRitualCall(id)

\* C15: completion is first-wins and idempotent: a completeRitual call for a
\* ritual that is already completed changes nothing of the orchestrator and
\* publishes nothing, so every ritual has at most one ritual:completed event,
\* and a completed ritual is never in the active set again
C15_CompletionIdempotent ==
    /\ [](\A id \in DOMAIN rituals :
            /\ rituals[id].events <= 1
            /\ rituals[id].status = "completed" =>
                    rituals[id].events = 1 /\ id \notin activeRituals)
    /\ [][\A id \in DOMAIN rituals :
            CallsCompleteRitual(id) /\ rituals[id].status = "completed" =>
                /\ rituals' = [rituals EXCEPT ![id].calls = @ + 1]
                /\ UNCHANGED <<activeRituals, ritualQueue, orchestrationState,
                               lastAlignment, bots, scrolls, pending, echoVars>>]_vars

\* a ritual was completed once and completeRitual was called for it again
C15_Witness ==
    \E id \in DOMAIN rituals :
        /\ rituals[id].status = "completed"
        /\ rituals[id].calls >= 2
        /\ rituals[id].events = 1

\* the rituals a step hands to executeRitual
TakenInStep == {id \in DOMAIN rituals :
                    rituals[id].status # "executing" /\ rituals'[id].status = "executing"}

\* C16: the cycle does not wait for a ritual handler: a cycle that has taken a
\* ritual from the queue and called its handler goes on to the alignment
\* computation and the convergence check, and to the status event unless
\* performConvergenceRitual is awaiting its scroll
C16_CycleDoesNotWait ==
    [][OrchestrationCycle /\ (\E id \in TakenInStep : rituals[id].type \in RecognizedTypes) =>
          /\ "align" \in Range(cycleLog'.steps)
          /\ "check" \in Range(cycleLog'.steps)
          /\ "publish" \in Range(cycleLog'.steps)
                \/ \E q \in pending' : q.kind = "convergence"]_vars

\* the successive statuses of the ritual state machine
StatusSteps == {<<"queued", "executing">>, <<"executing", "active">>, <<"active", "completed">>}

\* C17: a ritual on the queue has status queued, and the status of a ritual
\* changes only by one step forward along queued -> executing -> active ->
\* completed, so it never goes back and completed is final
C17_StatusMonotonic ==
    /\ [](\A i \in 1..Len(ritualQueue) : rituals[ritualQueue[i]].status = "queued")
    /\ [][\A id \in DOMAIN rituals :
            rituals'[id].status # rituals[id].status =>
                <<rituals[id].status, rituals'[id].status>> \in StatusSteps]_vars

\* the position in a chamber sequence of the echo with an id, 0 if there is none
EchoAt(chambers, id) ==
    IF \E i \in 1..Len(chambers) : chambers[i].id = id
    THEN CHOOSE i \in 1..Len(chambers) : chambers[i].id = id
    ELSE 0

\* C18: while an echo is resonating its amplitude never increases from one
\* state to the next, whatever the step is: a decay tick with its cleanup
\* sweep, an amplify call, or anything else
C18_AmplitudeNonIncreasing ==
    [][\A i \in 1..Len(echoChambers) :
          LET j == EchoAt(echoChambers', echoChambers[i].id)
          IN echoChambers[i].resonating /\ j # 0 =>
                RLeq(echoChambers'[j].amplitude, echoChambers[i].amplitude)]_vars

\* the ids of the echoes in the chambers
EchoIds == {echoChambers[i].id : i \in 1..Len(echoChambers)}

\* C19: amplifyEcho(echoId, multiplier) sets the amplitude of the echo with
\* that id to min(amplitude x multiplier, 2.0) and leaves the other echoes,
\* the number of echoes and the ids as they were; for an id no echo has it
\* changes nothing at all; and no echo ever has an amplitude over 2.0
C19_AmplifyCapped ==
    /\ [](\A i \in 1..Len(echoChambers) : RLeq(echoChambers[i].amplitude, Rat(2, 1)))
    /\ [][\A id \in 1..nextEchoId, m \in AmplifyMultipliers :
            AmplifyCall(id, m) =>
                /\ Len(echoChambers') = Len(echoChambers)
                /\ UNCHANGED <<activeEchoes, nextEchoId>>
                /\ \A i \in 1..Len(echoChambers) :
                      echoChambers'[i] =
                        IF echoChambers[i].id = id
                        THEN [echoChambers[i] EXCEPT
                                !.amplitude = RMin(RMul(@, m), Rat(2, 1))]
                        ELSE echoChambers[i]
                /\ id \notin EchoIds => UNCHANGED vars]_vars

\* an amplify call has run into the cap
C19_Witness ==
    \E i \in 1..Len(echoChambers) : echoChambers[i].amplitude = Rat(2, 1)

\* the amplitude the resonance pattern gives an echo at its age
PatternAmplitude(echo) ==
    LET pat == Pattern(echo.type)
    IN RMul(pat.amplitude, Rat(pat.decay - echo.age, pat.decay))

\* C20: a decay tick gives every resonating echo of age a < decay the
\* amplitude base x (1 - a / decay) and marks it non-resonating when that is
\* <= 0.1; the tick removes no echo: whatever is missing after the callback
\* was removed by the cleanup sweep's own test
C20_DecayFormula ==
    [][EchoMonitor =>
        LET before == AgedBy(echoChambers, MonitorPeriod)
            after == updateEchoResonance(before)
        IN /\ Len(after) = Len(before)
           /\ \A i \in 1..Len(before) :
                /\ after[i].id = before[i].id
                /\ before[i].resonating /\ before[i].age < Pattern(before[i].type).decay =>
                      /\ after[i].amplitude = PatternAmplitude(before[i])
                      /\ after[i].resonating = ~RLeq(after[i].amplitude, Rat(1, 10))
                /\ LET j == EchoAt(echoChambers', before[i].id)
                   IN IF j = 0
                      THEN \/ after[i].age >= Pattern(after[i].type).decay
                           \/ RLeq(after[i].amplitude, Rat(5, 100))
                      ELSE echoChambers'[j] = after[i]]_vars

\* a relic:deadwood echo (base 0.7, decay 5000 ms) at 2500 ms: amplitude 0.35,
\* and an echo the tick has marked non-resonating that is still in the set
C20_Witness ==
    \E i, k \in 1..Len(echoChambers) :
        /\ echoChambers[i].type = "relic:deadwood"
        /\ echoChambers[i].age = 2500
        /\ echoChambers[i].amplitude = Rat(35, 100)
        /\ echoChambers[i].resonating
        /\ ~echoChambers[k].resonating

EventsOf(id) == {ev \in harmonicEvents : ev.parent = id}

\* a createEcho call that was rejected
RejectedCreate ==
    /\ CallsCreateEcho \/ \E t \in HarmonicEchoTypes : CreateEchoCall(t)
    /\ createOutcome' = "dropped"

\* C22: an accepted echo whose pattern has k harmonic kinds gets exactly k
\* harmonic notifications, one per kind and each once: while the echo is in
\* the set its timer is pending or the k notifications have been emitted.
\* Notifications are emitted only by the timer, for an echo created before, and
\* a rejected createEcho calls no 'echo:created' listener and schedules nothing
C22_HarmonicsEmitted ==
    /\ [](/\ \A i \in 1..Len(echoChambers) :
                LET id == echoChambers[i].id
                    k == Pattern(echoChambers[i].type).harmonics
                IN \/ /\ EventsOf(id) = {}
                      /\ (k > 0) = (\E t \in harmonicTimers : t.id = id)
                   \/ /\ {ev.index : ev \in EventsOf(id)} = 0..(k - 1)
                      /\ Cardinality(EventsOf(id)) = k
                      /\ \A t \in harmonicTimers : t.id # id
          /\ \A ev \in harmonicEvents : ev.times = 1 /\ ev.parent < nextEchoId
          /\ createOutcome = "dropped" => delivered = <<>>)
    /\ [][/\ harmonicEvents' # harmonicEvents => \E t \in harmonicTimers : HarmonicTimer(t)
          /\ RejectedCreate => UNCHANGED <<harmonicTimers, harmonicEvents>>]_vars

\* C23: harmonics take no capacity: the timer that emits them leaves the echo
\* set and the active count as they were, and accepting an echo, with or
\* without harmonics, takes exactly one slot
C23_HarmonicsTakeNoSlot ==
    /\ [](activeEchoes = Len(echoChambers))
    /\ [][/\ (\E t \in harmonicTimers : HarmonicTimer(t)) =>
                UNCHANGED <<echoChambers, activeEchoes>>
          /\ nextEchoId' > nextEchoId =>
                /\ activeEchoes' = activeEchoes + 1
                /\ Len(echoChambers') = Len(echoChambers) + 1]_vars

\* the chambers are full of echoes with harmonics, all of them emitted
C23_Witness ==
    /\ activeEchoes = maxEchoes
    /\ \A i \in 1..Len(echoChambers) :
          /\ Pattern(echoChambers[i].type).harmonics > 0
          /\ Cardinality(EventsOf(echoChambers[i].id)) = Pattern(echoChambers[i].type).harmonics

\* C24: the alignment computation changes the alignment of no component but
\* scrollbot, which takes the average its manifest reports when that is not 0;
\* no other step changes any alignment, so forgebot, echobot and
\* seasonalvoices keep their initial values over any number of cycles
C24_OnlyScrollbotChanges ==
    /\ [](\A b \in BotNames \ {"scrollbot"} : bots[b].alignment = InitialAlignment(b))
    /\ [][/\ \A b \in BotNames \ {"scrollbot"} : bots'[b] = bots[b]
          /\ IF ComputesAlignment /\ calculateAverageAlignment(scrolls') # Zero
             THEN bots'["scrollbot"].alignment = calculateAverageAlignment(scrolls')
             ELSE bots'["scrollbot"] = bots["scrollbot"]]_vars

\* cycles have run, scrollbot has taken its manifest's average, the others
\* have the alignment they were registered with
C24_Witness ==
    /\ observedAlignment.seen
    /\ bots["scrollbot"].alignment # InitialAlignment("scrollbot")
    /\ bots["scrollbot"].alignment = calculateAverageAlignment(scrolls)
    /\ \A b \in BotNames \ {"scrollbot"} : bots[b].alignment = InitialAlignment(b)

\* C25: the alignment of every component is in [0, 1] in every reachable
\* state, scrollbot's after it took its manifest's average included
C25_AlignmentInUnitInterval ==
    \A b \in BotNames : RLeq(Zero, bots[b].alignment) /\ RLeq(bots[b].alignment, One)

\* scrollbot has taken the average of scrolls one of which is capped at 1.0
C25_Witness ==
    /\ bots["scrollbot"].alignment = One
    /\ \E f \in DOMAIN scrolls : scrolls[f] = One

\* the samples the history holds
HistorySize == Cardinality(DOMAIN alignmentMatrix)

\* C26: the alignment history never holds more than 100 samples; each
\* alignment computation appends one sample (the history grows by one, or, at
\* the bound, gets the new sample and loses one), and the sample evicted is
\* the oldest one
C26_HistoryRolling ==
    /\ [](HistorySize <= HistoryCap)
    /\ [][ComputesAlignment =>
            /\ now \in DOMAIN alignmentMatrix'
            /\ alignmentMatrix'[now] = lastAlignment'
            /\ IF HistorySize < HistoryCap
               THEN /\ HistorySize' = HistorySize + 1
                    /\ DOMAIN alignmentMatrix \subseteq DOMAIN alignmentMatrix'
               ELSE /\ HistorySize' = HistoryCap
                    /\ DOMAIN alignmentMatrix \ DOMAIN alignmentMatrix'
                          = {OldestSample(alignmentMatrix)}]_vars

\* the part of C26 the history keeps: the bound, and that a computation on a
\* new timestamp appends one sample and at the bound evicts the oldest one
C26_BoundAndEviction ==
    /\ [](HistorySize <= HistoryCap)
    /\ [][ComputesAlignment /\ now \notin DOMAIN alignmentMatrix =>
            /\ now \in DOMAIN alignmentMatrix'
            /\ alignmentMatrix'[now] = lastAlignment'
            /\ IF HistorySize < HistoryCap
               THEN /\ HistorySize' = HistorySize + 1
                    /\ DOMAIN alignmentMatrix \subseteq DOMAIN alignmentMatrix'
               ELSE /\ HistorySize' = HistoryCap
                    /\ DOMAIN alignmentMatrix \ DOMAIN alignmentMatrix'
                          = {OldestSample(alignmentMatrix)}]_vars

\* the history is full and has evicted its first sample
C26_Evicted == HistorySize = HistoryCap /\ 0 \notin DOMAIN alignmentMatrix

\* the steps of performOrchestrationCycle, in the order of its statements
CycleSteps == <<"heartbeat", "drain", "align", "check", "publish">>

\* the convergence check of this step's cycle hands ritual id to queueRitual
EnqueuedByCheck(id) ==
    /\ id = Len(rituals) + 1
    /\ id \in DOMAIN rituals'
    /\ id \in Range(ritualQueue')
    /\ CycleChecks

\* C27: the steps a cycle runs are heartbeat refresh, queue drain, alignment
\* recompute, convergence check, status publication, in that order; a ritual
\* the convergence check of a cycle enqueues is still waiting in the queue
\* when that cycle publishes its status, is counted in the queue depth the
\* cycle publishes, and leaves the queue only in the drain of a later cycle
C27_CycleOrder ==
    /\ [](\E n \in 0..Len(CycleSteps) : cycleLog.steps = SubSeq(CycleSteps, 1, n))
    /\ [][/\ EnqueuedByCheck(Len(rituals) + 1) =>
                  /\ cycleLog'.steps = CycleSteps
                  /\ cycleLog'.queuedRituals = Len(ritualQueue')
                  /\ cycleLog'.queuedRituals >= 1
                  /\ rituals'[Len(rituals) + 1].status = "none"
                  /\ Len(rituals) + 1 \notin activeRituals'
          /\ Range(ritualQueue) \ Range(ritualQueue') # {} =>
                  /\ OrchestrationCycle
                  /\ "drain" \in Range(cycleLog'.steps)]_vars

\* a cycle's check has enqueued the realignment ritual, the cycle has published
\* a queue depth that counts it, and the ritual is still waiting
C27_Witness ==
    /\ cycleLog.steps = CycleSteps
    /\ cycleLog.queuedRituals >= 1
    /\ \E i \in 1..Len(ritualQueue) :
          /\ rituals[ritualQueue[i]].origin = "controller"
          /\ rituals[ritualQueue[i]].status = "none"

\* the realignment ritual a check enqueued has been taken by a later drain
C27_TakenLater ==
    \E id \in DOMAIN rituals :
        /\ rituals[id].origin = "controller"
        /\ rituals[id].type = "alignment_convergence"
        /\ rituals[id].status # "none"

\* this step is a processShriningPing call
PingProcessed == \E m \in ShrineMisfireCounts : ProcessShrinePing(m)

\* the mascot messages this step sent
MascotsSent == SubSeq(mascotMessages', Len(mascotMessages) + 1, Len(mascotMessages'))

C30_HeadlessCanon ==
    [][PingProcessed /\ shrineEvent'.misfireCount >= 3 =>
          /\ Len(badgeLog') = Len(badgeLog) + 1
          /\ badgeLog'[Len(badgeLog')].ritualId = 67
          /\ IF shrineEvent'.misfireCount >= 7
             THEN /\ MascotsSent # <<>>
                  /\ \A i \in 1..Len(MascotsSent) : MascotsSent[i].type = "Headless"
             ELSE MascotsSent = <<>>]_vars

\* what the handler does for Relic #067: its badge for 3 <= misfireCount < 5
\* only, and no mascot of it for any misfireCount
C30_HeadlessInCode ==
    [][PingProcessed =>
          /\ (Len(badgeLog') = Len(badgeLog) + 1 /\ badgeLog'[Len(badgeLog')].ritualId = 67)
                <=> (shrineEvent'.misfireCount >= 3 /\ shrineEvent'.misfireCount < 5)
          /\ \A i \in 1..Len(MascotsSent) : MascotsSent[i].type # "Headless"]_vars

\* the entries the triggers of relic made in the current streak
StreakEntries(relic) ==
    {i \in DOMAIN relicLog :
        relicLog[i].relic = relic /\ relicLog[i].resolved = shrineCalls.resolved}

C32_OneRitualPerEvent ==
    /\ Created("re-emit") = {}
    /\ Cardinality(Created("event")) <= arrived

\* the convergence rituals whose performConvergenceRitual is not awaiting its
\* scroll any more
SettledConvergenceRituals ==
    {i \in DOMAIN rituals :
        /\ rituals[i].type = "convergence_ritual"
        /\ \A p \in pending : p.kind = "convergence" => p.ritual # i}

\* C33: every entry into converged has its convergence ritual, also when
\* createScroll raises during the transition: once the transition is over,
\* the ritual built for it is in the active set or has been completed
C33_ConvergedHasRitual ==
    \A i \in SettledConvergenceRituals :
        i \in activeRituals \/ rituals[i].status = "completed"

\* C34: in every reachable state activeEchoes is the number of echoes stored
\* in echoChambers and is not negative, whatever createEcho calls (also those
\* whose 'echo:created' subscriber raises), amplifyEcho calls, decay ticks
\* and cleanup sweeps came before
C34_CounterMatchesChambers ==
    /\ activeEchoes = Len(echoChambers)
    /\ activeEchoes >= 0

\* two echoes were created, the subscriber raised in the latest createEcho,
\* and a sweep has removed one of the two
C34_Witness ==
    /\ createOutcome = "threw"
    /\ nextEchoId = 3
    /\ activeEchoes = 1
    /\ Len(echoChambers) = 1

\* every ritual of the active set has its completion timer pending and does
\* not have status completed
ActiveHaveTimers ==
    \A id \in activeRituals : id \in timers /\ rituals[id].status # "completed"

EchoMonitorIntervals == echoListeners

\* the echoes stored by one step
EchoesCreated == nextEchoId' - nextEchoId

\* C36: forceRealignment does not change how often later events are handled:
\* after any number of forceRealignment calls the dispatch of one relic or
\* badge event creates at most one echo, and exactly one decay/cleanup
\* interval is running
C36_RealignmentKeepsOneListener ==
    /\ [](EchoMonitorIntervals = 1)
    /\ [][((\E m \in MisfireCounts : RelicTriggered(m)) \/ (\E sp \in BOOLEAN : BadgeAwarded(sp)))
            => EchoesCreated <= 1]_vars

\* the attempts of the retryWithBackoff call so far that rejected
FailedAttempts == {i \in DOMAIN retry.outcomes : ~retry.outcomes[i].ok}

\* the delays between n + 1 attempts: baseDelayMs, doubled after each attempt
BackoffDelays(n) == [i \in 1..n |-> retry.baseDelayMs * 2^(i - 1)]

\* C39: retryWithBackoff invokes fn at most maxRetries times; it returns the
\* value of the first attempt that resolves and makes no attempt after it; it
\* waits baseDelayMs * 2^attempt after a failed attempt only when another
\* attempt follows; after maxRetries failed attempts it throws the error of
\* the last attempt (as an Error)
C39_RetryWithBackoff ==
    LET n == Len(retry.outcomes)
    IN /\ n <= retry.maxRetries
       /\ \A i \in 1..(n - 1) : i \in FailedAttempts
       /\ retry.phase = "returned" <=> (n > 0 /\ retry.outcomes[n].ok)
       /\ retry.phase = "returned" =>
             /\ retry.result = retry.outcomes[n].value
             /\ retry.delays = BackoffDelays(n - 1)
       /\ retry.phase = "attempt" => retry.delays = BackoffDelays(n) /\ n < retry.maxRetries
       /\ retry.phase = "waiting" => retry.delays = BackoffDelays(n) /\ n < retry.maxRetries
       /\ (retry.phase = "thrown" /\ retry.maxRetries > 0) =>
             /\ n = retry.maxRetries
             /\ FailedAttempts = 1..n
             /\ retry.lastError = NormalizeError(retry.outcomes[n].error)
             /\ retry.delays = BackoffDelays(n - 1)

\* three attempts failed, the last with a value that is not an Error, after
\* delays of 500 and 1000 ms, and the call has thrown
C39_Witness ==
    /\ retry.phase = "thrown"
    /\ retry.maxRetries = 3
    /\ Len(retry.outcomes) = 3
    /\ ~retry.outcomes[3].error.isError
    /\ retry.delays = <<500, 1000>>

\* the second attempt resolved and its value was returned after one delay
C39_ReturnedWitness ==
    /\ retry.phase = "returned"
    /\ Len(retry.outcomes) = 2
    /\ Len(retry.delays) = 1

\* what executeConcurrently's results array must hold for item i once fn has
\* settled for it
ResultOf(i) ==
    IF concurrent.outcomes[i].ok THEN concurrent.outcomes[i].value
    ELSE NormalizeError(concurrent.outcomes[i].error)

ConcurrentInvariant ==
    /\ Cardinality(concurrent.inFlight) <= concurrent.concurrency
    /\ Len(concurrent.executing) <= concurrent.concurrency
    /\ \A i \in 1..concurrent.items :
          /\ concurrent.starts[i] <= 1
          /\ concurrent.starts[i] = 1 <=> i <= concurrent.index
    /\ concurrent.phase # "spinning"
    /\ concurrent.phase = "returned" =>
          /\ concurrent.inFlight = {}
          /\ concurrent.executing = <<>>
          /\ Len(concurrent.results) = concurrent.items
          /\ \A i \in 1..concurrent.items :
                /\ concurrent.starts[i] = 1
                /\ concurrent.outcomes[i] # Null
                /\ concurrent.results[i] = ResultOf(i)

\* C38: executeConcurrently never has more than `concurrency` invocations of
\* fn in flight, starts fn exactly once per item, returns once every fn
\* promise has settled, and returns an array whose position i holds the value
\* fn resolved with for items[i] or the Error it rejected with, whatever the
\* other items did
C38_ExecuteConcurrently ==
    /\ []ConcurrentInvariant
    /\ (concurrent.phase = "racing") ~> (concurrent.phase = "returned")

\* three items with concurrency 2: the call has returned, the second item
\* failed and the other two have their values
C38_Witness ==
    /\ concurrent.phase = "returned"
    /\ concurrent.items = 3
    /\ concurrent.concurrency = 2
    /\ ~concurrent.outcomes[2].ok
    /\ concurrent.results[2] = NormalizeError(concurrent.outcomes[2].error)
    /\ concurrent.outcomes[1].ok /\ concurrent.results[1] = 1
    /\ concurrent.outcomes[3].ok /\ concurrent.results[3] = 3

====
